---- MODULE Spec2Model ----
(***************************************************************************)
(* Model of the self-healing module-repair subsystem of the backend:       *)
(* api_consistency (syntax validator, unterminated-string repairer,        *)
(* single-module and batch orchestrator), the direct string-literal fixers *)
(* (fix_all_modules, string_fixer2, string_fixer3) and api_fixer's         *)
(* operation-id scan.                                                      *)
(*                                                                         *)
(* A module file's text is a sequence of characters over a small alphabet  *)
(* (a letter, the two quote characters, newline).  The compiler is the     *)
(* tokenizer/parser restricted to that alphabet.                           *)
(***************************************************************************)
EXTENDS Integers, Sequences, FiniteSets, TLC

\* ------------------------------------------------------------------ bounds
MaxLen == 5            \* longest initial file text explored by SpecRepair / SpecDirect
MaxRoutes == 2         \* most route decorators per file explored by SpecOpId

\* --------------------------------------------------------------- alphabet
SQ == "'"
DQ == "\""
NL == "\n"
LETTER == "a"
Chars == {LETTER, SQ, DQ, NL}

\* the assignment sign and the blank: they occur in the sample statements
\* below, not in the texts enumerated over Chars
EQ == "="
SP == " "

\* One more symbol, outside the alphabet of ordinary texts: an expression
\* nested deeper than the parser can handle (such as a very long run of
\* unary minus signs).  compile() answers it with MemoryError or
\* RecursionError, which are not SyntaxError.
DEEP == "-"

\* The backslash: it occurs in the texts given to the enhanced string fixer,
\* where a string literal runs on to the next line
BS == "\\"

Contents(n) == UNION {[1..k -> Chars] : k \in 0..n}

\* ----------------------------------------------------- str helper methods
\* str.split('\n')
RECURSIVE Split(_)
Split(s) ==
  IF \A i \in 1..Len(s) : s[i] # NL THEN <<s>>
  ELSE LET i == CHOOSE k \in 1..Len(s) :
                  s[k] = NL /\ \A j \in 1..(k-1) : s[j] # NL
       IN <<SubSeq(s, 1, i - 1)>> \o Split(SubSeq(s, i + 1, Len(s)))

\* '\n'.join(lines)
RECURSIVE Join(_)
Join(lines) ==
  IF Len(lines) = 0 THEN <<>>
  ELSE IF Len(lines) = 1 THEN lines[1]
  ELSE lines[1] \o <<NL>> \o Join(Tail(lines))

\* str.count(ch) for a single character
Count(s, ch) == Cardinality({i \in 1..Len(s) : s[i] = ch})

\* str.count(ch * 3): non-overlapping occurrences, scanning left to right
RECURSIVE CountTriple(_, _, _)
CountTriple(s, ch, i) ==
  IF i + 2 > Len(s) THEN 0
  ELSE IF s[i] = ch /\ s[i+1] = ch /\ s[i+2] = ch
       THEN 1 + CountTriple(s, ch, i + 3)
       ELSE CountTriple(s, ch, i + 1)

\* ------------------------------------------------------- compile(code, ..)
\* first index j >= from where a closing triple quote starts, 0 if none
RECURSIVE FindTriple(_, _, _)
FindTriple(code, q, from) ==
  IF from + 2 > Len(code) THEN 0
  ELSE IF code[from] = BS THEN FindTriple(code, q, from + 2)
  ELSE IF code[from] = q /\ code[from+1] = q /\ code[from+2] = q THEN from
  ELSE FindTriple(code, q, from + 1)

\* index of the quote closing a one-line string opened before `from`,
\* 0 if end of line or end of input comes first; a backslash takes the
\* character after it into the string, a newline included
RECURSIVE FindClose(_, _, _)
FindClose(code, q, from) ==
  IF from > Len(code) THEN 0
  ELSE IF code[from] = BS THEN FindClose(code, q, from + 2)
  ELSE IF code[from] = q THEN from
  ELSE IF code[from] = NL THEN 0
  ELSE FindClose(code, q, from + 1)

\* index at which a one-line string opened before `from` is given up: the
\* newline that ends it, or the end of the text
RECURSIVE FindStop(_, _)
FindStop(code, from) ==
  IF from > Len(code) THEN Len(code) + 1
  ELSE IF code[from] = BS THEN FindStop(code, from + 2)
  ELSE IF code[from] = NL THEN from
  ELSE FindStop(code, from + 1)

Min2(a, b) == IF a < b THEN a ELSE b

NewlinesIn(code, lo, hi) == Cardinality({k \in lo..hi : code[k] = NL})

\* What compile raises: kind of SyntaxError, its lineno, and the line its
\* message names ("detected at line N" for string errors)
CompileOk == [kind |-> "ok", line |-> 0, detected |-> 0]

\* line at which the tokenizer meets the end of the text
LastLine(code) ==
  1 + Count(code, NL) - (IF Len(code) > 0 /\ code[Len(code)] = NL THEN 1 ELSE 0)

\* The state of the tokenizer and parser between two tokens:
\*   prev      last token of the current logical line ("start", "name",
\*             "string", "assign" for =, "compare" for ==)
\*   cmp       the current expression holds a comparison
\*   assigned  the current statement already holds an assignment
\*   estart    line on which the current expression starts
\*   perr      line of the first grammar error (0 if none), pkind its kind
\*   indents   the tokenizer's stack of indentation columns
\*   bol       the scan is at the beginning of a physical line
ScanStart ==
  [prev |-> "start", cmp |-> FALSE, assigned |-> FALSE, estart |-> 0,
   perr |-> 0, pkind |-> "invalid_syntax", indents |-> <<0>>, bol |-> TRUE]

\* only the first grammar error is kept
Fail(t, ln, kind) == IF t.perr = 0 THEN [t EXCEPT !.perr = ln, !.pkind = kind] ELSE t

IsNameChar(c) == c \notin {SQ, DQ, NL, EQ, SP, BS}

\* first index >= i whose character is not a blank / not a name character
\* (Len(code) + 1 if none)
SkipBlanks(code, i) ==
  LET stops == {j \in i..Len(code) : code[j] # SP}
  IN IF stops = {} THEN Len(code) + 1 ELSE CHOOSE j \in stops : \A k \in stops : j <= k

NameEnd(code, i) ==
  LET stops == {j \in i..Len(code) : ~IsNameChar(code[j])}
  IN IF stops = {} THEN Len(code) + 1 ELSE CHOOSE j \in stops : \A k \in stops : j <= k

\* the parser's state after a NEWLINE, NAME, STRING, == or = token met on
\* line ln
AfterNewline(t, ln) ==
  [(IF t.prev \in {"assign", "compare"} THEN Fail(t, ln, "invalid_syntax") ELSE t)
     EXCEPT !.prev = "start", !.cmp = FALSE, !.assigned = FALSE, !.bol = TRUE]

AfterName(t, ln) ==
  [(IF t.prev \in {"name", "string"} THEN Fail(t, ln, "invalid_syntax") ELSE t)
     EXCEPT !.prev = "name",
            !.estart = IF t.prev \in {"start", "assign"} THEN ln ELSE @]

AfterString(t, ln) ==
  [(IF t.prev = "name" THEN Fail(t, ln, "invalid_syntax") ELSE t)
     EXCEPT !.prev = "string",
            !.estart = IF t.prev \in {"start", "assign"} THEN ln ELSE @]

AfterCompare(t, ln) ==
  [(IF t.prev \in {"start", "assign", "compare"} THEN Fail(t, ln, "invalid_syntax") ELSE t)
     EXCEPT !.prev = "compare", !.cmp = TRUE]

AfterAssign(t, ln) ==
  [(IF t.prev \in {"start", "assign", "compare"} THEN Fail(t, ln, "invalid_syntax")
    ELSE IF t.cmp /\ t.assigned THEN Fail(t, t.estart, "invalid_syntax")
    ELSE IF t.cmp \/ t.prev = "string" THEN Fail(t, t.estart, "cannot_assign")
    ELSE t)
     EXCEPT !.prev = "assign", !.cmp = FALSE, !.assigned = TRUE]

\* what is raised once the whole text has been tokenized
ScanEnd(t, ln) ==
  IF t.perr > 0 THEN [kind |-> t.pkind, line |-> t.perr, detected |-> t.perr]
  ELSE IF t.prev \in {"assign", "compare"}
  THEN [kind |-> "invalid_syntax", line |-> ln, detected |-> ln]
  ELSE CompileOk

\* Tokenizer + statement grammar over names, string literals, = and ==, one
\* statement per logical line.  An unterminated string anywhere in the text
\* takes precedence over a grammar error met before it; an indented
\* statement is refused at once.  (No name of the explored texts that
\* touches a quote is a string prefix such as r or b.)
RECURSIVE Scan(_, _, _, _)
RECURSIVE ScanIndent(_, _, _, _, _)
Scan(code, i, line, t) ==
  IF i > Len(code) THEN ScanEnd(t, line)
  ELSE IF t.bol THEN ScanIndent(code, i, SkipBlanks(code, i), line, t)
  ELSE
    LET c == code[i] IN
    IF c = SP THEN Scan(code, i + 1, line, t)
    ELSE IF c = NL THEN Scan(code, i + 1, line + 1, AfterNewline(t, line))
    ELSE IF c = EQ
    THEN IF i + 1 <= Len(code) /\ code[i+1] = EQ
         THEN Scan(code, i + 2, line, AfterCompare(t, line))
         ELSE Scan(code, i + 1, line, AfterAssign(t, line))
    ELSE IF IsNameChar(c) THEN Scan(code, NameEnd(code, i), line, AfterName(t, line))
    ELSE IF c = BS
    THEN IF i + 1 <= Len(code) /\ code[i+1] = NL /\ i + 2 <= Len(code)
         THEN Scan(code, i + 2, line + 1, t)
         ELSE [kind |-> "unexpected_character", line |-> line, detected |-> line]
    ELSE
      IF i + 2 <= Len(code) /\ code[i+1] = c /\ code[i+2] = c
      THEN LET j == FindTriple(code, c, i + 3) IN
           IF j = 0 THEN [kind |-> "unterminated_triple", line |-> line,
                            detected |-> LastLine(code)]
           ELSE Scan(code, j + 3, line + NewlinesIn(code, i, j), AfterString(t, line))
      ELSE IF i + 1 <= Len(code) /\ code[i+1] = c
      THEN Scan(code, i + 2, line, AfterString(t, line))
      ELSE LET j == FindClose(code, c, i + 1) IN
           IF j = 0 THEN [kind |-> "unterminated_string", line |-> line,
                            detected |-> Min2(line + NewlinesIn(code, i, FindStop(code, i + 1) - 1),
                                              IF LastLine(code) < line THEN line ELSE LastLine(code))]
           ELSE Scan(code, j + 1, line + NewlinesIn(code, i, j), AfterString(t, line))

\* the beginning of a physical line whose first non-blank character is at j
ScanIndent(code, i, j, line, t) ==
  IF j > Len(code) THEN ScanEnd(t, line)
  ELSE IF code[j] = NL THEN Scan(code, j + 1, line + 1, t)
  ELSE IF j - i > t.indents[Len(t.indents)]
  THEN IF t.perr = 0
       THEN [kind |-> "unexpected_indent", line |-> line, detected |-> line]
       ELSE Scan(code, j, line, [t EXCEPT !.bol = FALSE, !.indents = Append(@, j - i)])
  ELSE IF j - i \in {t.indents[k] : k \in 1..Len(t.indents)}
  THEN Scan(code, j, line,
            [t EXCEPT !.bol = FALSE, !.indents = SelectSeq(@, LAMBDA x : x <= j - i)])
  ELSE ScanEnd(t, line)

\* what compile raises for a text holding DEEP: not a SyntaxError
CompileOverflow == [kind |-> "parser_overflow", line |-> 0, detected |-> 0]

\* compile(code, '<string>', 'exec'): "ok" or the exception it raises
Compile(code) ==
  IF \E i \in 1..Len(code) : code[i] = DEEP THEN CompileOverflow
  ELSE Scan(code, 1, 1, ScanStart)

\* isinstance(e, SyntaxError)
IsSyntaxError(e) == e.kind \notin {"ok", "parser_overflow"}

\* 'unterminated string literal' in str(e)
IsUnterminatedStringError(e) == e.kind = "unterminated_string"

\* ------------------------------------------------ the module tree on disk
\* Directories under APIS_DIR.  api_consistency is the orchestrator itself;
\* api_fixer and string_fixer2 are sibling repair modules; properties is an
\* ordinary API module.
Modules == {"api_consistency", "api_fixer", "string_fixer2", "properties"}

\* every repair module of the tree (the orchestrator and its siblings)
RepairModules == {"api_consistency", "api_fixer", "string_fixer", "string_fixer2",
                  "string_fixer3", "enhanced_string_fixer", "string_literal_fixer",
                  "fix_module", "fix_all_modules", "module_fixer", "module_checker",
                  "operation_id_fixer"}

\* A module's __init__.py: exists, can be read (open/decode succeeds), text.
MkFile(e, r, c) == [exists |-> e, readable |-> r, content |-> c]
MissingFile == MkFile(FALSE, FALSE, <<>>)
UnreadableFile == MkFile(TRUE, FALSE, <<>>)
ValidFile == MkFile(TRUE, TRUE, <<LETTER>>)
DeepFile == MkFile(TRUE, TRUE, <<DEEP>>)

\* two sample statements with an unterminated literal:
\*   description = "Luxury home     (followed by a newline)
\*   x = 'abc                       (no newline)
ExampleLine ==
  <<"d", "e", "s", "c", "r", "i", "p", "t", "i", "o", "n", SP, EQ, SP,
    DQ, "L", "u", "x", "u", "r", "y", SP, "h", "o", "m", "e">>
ExampleText == ExampleLine \o <<NL>>
SyntheticText == <<"x", SP, EQ, SP, SQ, "a", "b", "c">>
ExampleFile == MkFile(TRUE, TRUE, ExampleText)
SyntheticFile == MkFile(TRUE, TRUE, SyntheticText)

\* ------------------------------------------------------- api_consistency
is_syntax_valid(code) == Compile(code).kind = "ok"

\* `except SyntaxError` lets any other exception leave detect_issues: that
\* is the one-element answer of type "raised", carrying str(e)
detect_issues(code) ==
  LET e == Compile(code) IN
  IF e.kind = "ok" THEN <<>>
  ELSE IF ~IsSyntaxError(e)
  THEN <<[type |-> "raised", line |-> 0, description |-> e.kind]>>
  ELSE <<[type |-> IF IsUnterminatedStringError(e)
                   THEN "unterminated_string" ELSE "syntax_error",
          line |-> e.detected,
          description |-> e.kind]>>

Append1(lines, n, q) == [lines EXCEPT ![n] = lines[n] \o q]

\* the two `for quote_type in ["'", '"']` loops (lines 118-129): the first
\* candidate text that compiles, else the fallback
RECURSIVE FirstValid(_, _, _)
FirstValid(candidates, k, fallback) ==
  IF k > Len(candidates) THEN fallback
  ELSE IF is_syntax_valid(candidates[k]) THEN candidates[k]
  ELSE FirstValid(candidates, k + 1, fallback)

\* lines 95-131, for a line number inside the text
FixLine_AtEndOfText(code, lines, n) ==
  IF Count(lines[n], SQ) % 2 = 1 THEN code \o <<SQ>> ELSE code \o <<DQ>>

FixLine(code, lines, n) ==
  LET single_quotes == Count(lines[n], SQ)
      double_quotes == Count(lines[n], DQ)
      triple_single == CountTriple(lines[n], SQ, 1)
      triple_double == CountTriple(lines[n], DQ, 1)
  IN
  IF single_quotes % 2 = 1 /\ double_quotes % 2 = 0
  THEN Join(Append1(lines, n, <<SQ>>))
  ELSE IF double_quotes % 2 = 1 /\ single_quotes % 2 = 0
  THEN Join(Append1(lines, n, <<DQ>>))
  ELSE IF triple_single % 2 = 1
  THEN Join(Append1(lines, n, <<SQ, SQ, SQ>>))
  ELSE IF triple_double % 2 = 1
  THEN Join(Append1(lines, n, <<DQ, DQ, DQ>>))
  ELSE FirstValid(<<Join(Append1(lines, n, <<SQ>>)),
                    Join(Append1(lines, n, <<DQ>>)),
                    code \o <<SQ>>,
                    code \o <<DQ>>>>, 1, Join(lines))

fix_unterminated_string(code, line_number) ==
  IF line_number <= 0 \/ line_number > Len(Split(code)) THEN code
  ELSE FixLine(code, Split(code), line_number)

\* string_literal_fixer.detect_unclosed_quotes (lines 34-62): the pair
\* (has_unclosed_quotes, quote_type), quote_type as the symbols to append
detect_unclosed_quotes(line) ==
  LET single_quotes == Count(line, SQ)
      double_quotes == Count(line, DQ)
      triple_single == CountTriple(line, SQ, 1)
      triple_double == CountTriple(line, DQ, 1)
  IN
  IF single_quotes % 2 = 1 /\ double_quotes % 2 = 0 THEN <<TRUE, <<SQ>>>>
  ELSE IF double_quotes % 2 = 1 /\ single_quotes % 2 = 0 THEN <<TRUE, <<DQ>>>>
  ELSE IF triple_single % 2 = 1 THEN <<TRUE, <<SQ, SQ, SQ>>>>
  ELSE IF triple_double % 2 = 1 THEN <<TRUE, <<DQ, DQ, DQ>>>>
  ELSE <<FALSE, <<>>>>

\* range(max_iterations) with one iteration more
max_iterations_Eleven == 10 + 1

max_iterations == 10

\* one entry of fixes_applied
FixEntry(text, issue) == [text |-> text, line |-> issue.line, description |-> issue.description]

\* lines 162-166: fixed_content is what fix_unterminated_string returned
RecordFix(st, issue, fixed_content) ==
  IF fixed_content # st.content
  THEN [st EXCEPT !.content = fixed_content,
                  !.fixes = Append(st.fixes, FixEntry("Fixed unterminated string at line", issue))]
  ELSE [st EXCEPT !.fixes =
          Append(st.fixes, FixEntry("Couldn't fix unterminated string at line", issue))]

\* the body of `for issue in issues` (lines 158-169); st = [content, fixes,
\* exc, iters], exc being str(e) of an exception raised inside the try block
\* ("" if none) and iters the number of loop iterations that went past the
\* first validity test
RECURSIVE ApplyIssues(_, _, _)
ApplyIssues(issues, k, st) ==
  IF k > Len(issues) THEN st
  ELSE IF issues[k].type = "unterminated_string"
  THEN ApplyIssues(issues, k + 1,
         RecordFix(st, issues[k], fix_unterminated_string(st.content, issues[k].line)))
  ELSE ApplyIssues(issues, k + 1,
         [st EXCEPT !.fixes = Append(st.fixes, FixEntry("Couldn't fix syntax error", issues[k]))])

\* the `for i in range(max_iterations)` loop (lines 149-173)
RECURSIVE RepairLoop(_, _)
RECURSIVE RepairStep(_, _, _)
RepairLoop(i, st) ==
  IF i >= max_iterations THEN st
  ELSE IF is_syntax_valid(st.content) THEN st
  ELSE RepairStep(i, [st EXCEPT !.iters = st.iters + 1], detect_issues(st.content))

\* lines 155-169 of one iteration
RepairStep(i, st, issues) ==
  IF issues = <<>> THEN st
  ELSE IF issues[1].type = "raised" THEN [st EXCEPT !.exc = issues[1].description]
  ELSE RepairLoop(i + 1, ApplyIssues(issues, 1, st))

\* the status decided after the loop (lines 176-200)
FinalStatus_Unvalidated(content, original_content) ==
  IF content # original_content THEN "fixed"
  ELSE IF is_syntax_valid(content) THEN "no_issues" ELSE "unfixable"

FinalStatus_Uncompared(content, original_content) ==
  IF is_syntax_valid(content) THEN "fixed" ELSE "unfixable"

FinalStatus(content, original_content) ==
  IF is_syntax_valid(content)
  THEN IF content # original_content THEN "fixed" ELSE "no_issues"
  ELSE "unfixable"

\* the branches that open the file for writing (lines 177-180)
WritesFile_Unfixable(status) == status \in {"fixed", "unfixable"}

WritesFile_Never(status) == FALSE

WritesFile(status) == status = "fixed"

\* the branches whose returned dict has a "fixes" key
HasFixesKey(status) == status \in {"fixed", "unfixable"}

\* the message of each returned dict
StatusMessage(status) ==
  CASE status = "fixed" -> "Fixed issues"
    [] status = "no_issues" -> "No syntax issues found"
    [] OTHER -> "Could not fix all syntax issues automatically"

\* a returned dict; detail is the str(e) interpolated into the message of an
\* error result ("" when the message has no such part); iterations is not a
\* key of the dict: it records how many detect-and-repair iterations the
\* call ran
MkResult(m, st, msg, fx, has) ==
  [module |-> m, status |-> st, message |-> msg, fixes |-> fx, has_fixes |-> has,
   detail |-> "", iterations |-> 0]

\* the dict built by an except clause from the exception e
MkError(m, st, msg, exc) == [MkResult(m, st, msg, <<>>, FALSE) EXCEPT !.detail = exc]

NoResult == MkResult("", "none", "", <<>>, FALSE)

\* what open(init_path).read() does with an unreadable file (lines 139-142,
\* caught by the except clause at 201-208)
ReadFailure_Propagates(m) == MkError(m, "raised", "", "decode_error")

ReadFailure(m) == MkError(m, "error", "Error fixing module", "decode_error")

\* an exception raised inside the try block after the read (lines 144-200),
\* caught by the same except clause
LoopFailure_Propagates(m, exc) == MkError(m, "raised", "", exc)

LoopFailure(m, exc) == MkError(m, "error", "Error fixing module", exc)

\* lines 176-200: the returned dict and the write, for the loop's outcome st
\* and the status decided from it
RepairOutcome(m, fs, st, status) ==
  [result |-> [MkResult(m, status, StatusMessage(status),
                        IF HasFixesKey(status) THEN st.fixes ELSE <<>>,
                        HasFixesKey(status))
                 EXCEPT !.iterations = st.iters],
   fs |-> IF WritesFile(status) THEN [fs EXCEPT ![m].content = st.content] ELSE fs,
   reads |-> <<m>>,
   writes |-> IF WritesFile(status)
              THEN <<[module |-> m, content |-> st.content]>> ELSE <<>>]

\* lines 144-200, for the content read from the file
RepairContent(m, fs, st) ==
  IF st.exc # ""
  THEN [result |-> LoopFailure(m, st.exc), fs |-> fs, reads |-> <<m>>, writes |-> <<>>]
  ELSE RepairOutcome(m, fs, st, FinalStatus(st.content, fs[m].content))

\* fix_module_syntax(module_name) on the tree fs: the returned dict, the
\* tree afterwards, the files opened for reading and the writes performed
fix_module_syntax(m, fs) ==
  IF m \notin DOMAIN fs \/ ~fs[m].exists
  THEN [result |-> MkResult(m, "error", "Module not found", <<>>, FALSE),
        fs |-> fs, reads |-> <<>>, writes |-> <<>>]
  ELSE IF ~fs[m].readable
  THEN [result |-> ReadFailure(m), fs |-> fs, reads |-> <<m>>, writes |-> <<>>]
  ELSE RepairContent(m, fs, RepairLoop(0, [content |-> fs[m].content, fixes |-> <<>>, exc |-> "", iters |-> 0]))

\* what POST /check-module answers: the HTTP status and, for 200, the
\* returned dict; detail is the text of the HTTPException otherwise
CheckResponse(code, m, is_valid, issues, detail) ==
  [code |-> code, module |-> m, is_valid |-> is_valid, issues |-> issues, detail |-> detail]

\* lines 255-262, issues being what detect_issues returned for an invalid
\* text; an exception leaving it is answered 500 (lines 263-264)
CheckReport(m, is_valid, issues) ==
  IF issues # <<>> /\ issues[1].type = "raised"
  THEN CheckResponse(500, m, FALSE, <<>>, "Error checking module")
  ELSE CheckResponse(200, m, is_valid, issues, "")

\* check_api_consistency(request) on the tree fs (lines 242-264)
check_api_consistency(m, fs) ==
  IF ~fs[m].exists THEN CheckResponse(404, m, FALSE, <<>>, "Module not found")
  ELSE IF ~fs[m].readable THEN CheckResponse(500, m, FALSE, <<>>, "Error checking module")
  ELSE IF is_syntax_valid(fs[m].content) THEN CheckReport(m, TRUE, <<>>)
  ELSE CheckReport(m, FALSE, detect_issues(fs[m].content))

\* the modules fix_all_modules_syntax skips (line 220)
SkipList_WithoutSelf == {"string_fixer", "enhanced_string_fixer", "api_fixer"}

SkipList == {"api_consistency", "string_fixer", "enhanced_string_fixer", "api_fixer"}

\* APIS_DIR.iterdir() filtered by is_dir() and __init__.py exists (line 212);
\* order is the order in which the file system yields the directories
Listing(fs, order) == SelectSeq(order, LAMBDA m : fs[m].exists)

\* lines 224-231: the bookkeeping for the dict r.result returned by
\* fix_module_syntax; an exception leaving that call ends the loop
Accumulate(acc, module, r) ==
  IF r.result.status = "raised" THEN [acc EXCEPT !.raised = TRUE]
  ELSE [fs |-> r.fs,
        raised |-> FALSE,
        results |-> Append(acc.results, r.result),
        calls |-> Append(acc.calls, module),
        reads |-> acc.reads \o r.reads,
        writes |-> acc.writes \o r.writes,
        fixed_count |-> acc.fixed_count + (IF r.result.status = "fixed" THEN 1 ELSE 0),
        no_issues_count |->
          acc.no_issues_count + (IF r.result.status = "no_issues" THEN 1 ELSE 0),
        error_count |->
          acc.error_count + (IF r.result.status \notin {"fixed", "no_issues"} THEN 1 ELSE 0)]

\* the `for module in modules` loop (lines 218-231)
RECURSIVE BatchLoop(_, _, _)
BatchLoop(modules, k, acc) ==
  IF k > Len(modules) \/ acc.raised THEN acc
  ELSE IF modules[k] \in SkipList THEN BatchLoop(modules, k + 1, acc)
  ELSE BatchLoop(modules, k + 1,
                 Accumulate(acc, modules[k], fix_module_syntax(modules[k], acc.fs)))

\* lines 213-216
EmptyAcc(fs) ==
  [fs |-> fs, raised |-> FALSE, results |-> <<>>, calls |-> <<>>,
   reads |-> <<>>, writes |-> <<>>,
   fixed_count |-> 0, no_issues_count |-> 0, error_count |-> 0]

\* the returned dict (lines 233-239) as answered by
\* fix_all_modules_syntax_endpoint (lines 286-306): 500 if an exception
\* escaped the loop
BatchReport(modules, acc) ==
  [fs |-> acc.fs,
   report |-> [code |-> IF acc.raised THEN 500 ELSE 200,
               modules |-> modules,
               results |-> acc.results,
               calls |-> acc.calls,
               reads |-> acc.reads,
               writes |-> acc.writes,
               total_modules |-> Len(modules),
               fixed_modules |-> acc.fixed_count,
               modules_without_issues |-> acc.no_issues_count,
               modules_with_errors |-> acc.error_count]]

\* fix_all_modules_syntax() for one directory listing
fix_all_modules_syntax(modules, fs) ==
  BatchReport(modules, BatchLoop(modules, 1, EmptyAcc(fs)))

\* ------------------------------------------- direct string-literal fixers
DirectOutcome(m, status, message, fs, w) ==
  [result |-> MkResult(m, status, message, <<>>, FALSE), fs |-> fs, writes |-> w]

\* open(path, 'w').write(fixed_content)
Written(m, fs, fixed_content) == [fs EXCEPT ![m].content = fixed_content]
WriteLog(m, fixed_content) == <<[module |-> m, content |-> fixed_content]>>

\* the quote fix_file and fix_string_literals3 append to the blamed line
\* (fix_all_modules lines 33-42, string_fixer3 lines 53-65)
DirectQuote(line) ==
  IF Count(line, SQ) > 0 /\ Count(line, SQ) % 2 = 1 THEN SQ
  ELSE IF Count(line, DQ) > 0 /\ Count(line, DQ) % 2 = 1 THEN DQ
  ELSE SQ

\* fix_all_modules lines 44-54: write, then compile
fix_file_write(m, fs, fixed_content) ==
  IF Compile(fixed_content).kind = "ok"
  THEN DirectOutcome(m, "fixed", "Successfully fixed file",
                     Written(m, fs, fixed_content), WriteLog(m, fixed_content))
  ELSE DirectOutcome(m, "partial", "Fixed string but still has syntax error",
                     Written(m, fs, fixed_content), WriteLog(m, fixed_content))

\* fix_all_modules lines 18-56: e is what compile(content) raised
fix_file_checked(m, fs, lines, e) ==
  IF e.kind = "ok" THEN DirectOutcome(m, "ok", "File already has valid syntax", fs, <<>>)
  ELSE IF ~IsSyntaxError(e) THEN DirectOutcome(m, "error", "Error processing file", fs, <<>>)
  ELSE IF ~IsUnterminatedStringError(e)
  THEN DirectOutcome(m, "error", "File has non-string-literal syntax error", fs, <<>>)
  ELSE IF 0 <= e.line - 1 /\ e.line - 1 < Len(lines)
  THEN fix_file_write(m, fs, Join(Append1(lines, e.line, <<DirectQuote(lines[e.line])>>)))
  ELSE DirectOutcome(m, "error", "Could not identify line to fix", fs, <<>>)

\* fix_all_modules.fix_file(file_path) on the __init__.py of module m
fix_file(m, fs) ==
  IF ~fs[m].exists \/ ~fs[m].readable
  THEN DirectOutcome(m, "error", "Error processing file", fs, <<>>)
  ELSE fix_file_checked(m, fs, Split(fs[m].content), Compile(fs[m].content))

\* string_fixer3 lines 67-87: write, then compile
fix_string_literals3_write(m, fs, fixed_content) ==
  IF Compile(fixed_content).kind = "ok"
  THEN DirectOutcome(m, "fixed", "fixed",
                     Written(m, fs, fixed_content), WriteLog(m, fixed_content))
  ELSE DirectOutcome(m, "partial", "Fixed string but still has syntax error",
                     Written(m, fs, fixed_content), WriteLog(m, fixed_content))

\* string_fixer3 lines 33-89: e is what compile(content) raised
fix_string_literals3_checked(m, fs, lines, e) ==
  IF e.kind = "ok" THEN DirectOutcome(m, "ok", "already has valid syntax", fs, <<>>)
  ELSE IF ~IsSyntaxError(e) THEN DirectOutcome(m, "error", "Error processing", fs, <<>>)
  ELSE IF ~IsUnterminatedStringError(e)
  THEN DirectOutcome(m, "error", "Module has non-string-literal syntax error", fs, <<>>)
  ELSE IF 0 <= e.line - 1 /\ e.line - 1 < Len(lines)
  THEN fix_string_literals3_write(m, fs,
         Join(Append1(lines, e.line, <<DirectQuote(lines[e.line])>>)))
  ELSE DirectOutcome(m, "error", "Could not identify line to fix", fs, <<>>)

\* string_fixer3.fix_string_literals3(module_name)
fix_string_literals3(m, fs) ==
  IF ~fs[m].exists
  THEN DirectOutcome(m, "error", "Module not found", fs, <<>>)
  ELSE IF ~fs[m].readable
  THEN DirectOutcome(m, "error", "Error processing", fs, <<>>)
  ELSE fix_string_literals3_checked(m, fs, Split(fs[m].content), Compile(fs[m].content))

\* string_fixer2 lines 81-104: write, then compile
fix_string_literals_write(m, fs, fixed_content) ==
  IF Compile(fixed_content).kind = "ok"
  THEN DirectOutcome(m, "success", "fixed",
                     Written(m, fs, fixed_content), WriteLog(m, fixed_content))
  ELSE DirectOutcome(m, "failure", "partial_fix",
                     Written(m, fs, fixed_content), WriteLog(m, fixed_content))

\* string_fixer2 lines 65-79, error_line is 0-based
Fixer2Quote(line) ==
  IF Count(line, SQ) % 2 = 1 THEN <<SQ>>
  ELSE IF Count(line, DQ) % 2 = 1 THEN <<DQ>>
  ELSE <<>>

\* string_fixer2 lines 40-110: e is what compile(content) raised; status is
\* the "success" flag of the returned dict, message tells the branches apart
fix_string_literals_checked(m, fs, lines, e) ==
  IF e.kind = "ok" THEN DirectOutcome(m, "success", "already_valid", fs, <<>>)
  ELSE IF ~IsSyntaxError(e) THEN DirectOutcome(m, "failure", "Error fixing module", fs, <<>>)
  ELSE IF ~IsUnterminatedStringError(e)
  THEN DirectOutcome(m, "failure", "not an unterminated string literal", fs, <<>>)
  ELSE IF /\ 0 <= e.line - 1 /\ e.line - 1 < Len(lines)
          /\ Fixer2Quote(lines[e.line]) # <<>>
  THEN fix_string_literals_write(m, fs,
         Join(Append1(lines, e.line, Fixer2Quote(lines[e.line]))))
  ELSE DirectOutcome(m, "failure", "Could not identify how to fix", fs, <<>>)

\* string_fixer2.fix_string_literals(module_path)
fix_string_literals(m, fs) ==
  IF ~fs[m].exists
  THEN DirectOutcome(m, "failure", "Module file not found", fs, <<>>)
  ELSE IF ~fs[m].readable
  THEN DirectOutcome(m, "failure", "Error fixing module", fs, <<>>)
  ELSE fix_string_literals_checked(m, fs, Split(fs[m].content), Compile(fs[m].content))

\* ------------------------------------------- api_fixer operation-id scan
\* A route decorator of a file: its explicit operation_id ("" when the
\* keyword is absent) and the name of the function it decorates.
NoId == ""
FuncNames == {"f", "g"}
ExplicitIds == {"f"}
Decorators == [operation_id : ExplicitIds \cup {NoId}, func : FuncNames]
RouteLists(n) == UNION {[1..k -> Decorators] : k \in 0..n}

\* the operation ID the framework uses for a route
EffectiveId(d) == IF d.operation_id # NoId THEN d.operation_id ELSE d.func

\* the rewrite of one file's decorators (lines 636-652)
AddOperationIds(decs) ==
  [i \in 1..Len(decs) |->
     IF decs[i].operation_id = NoId
     THEN [decs[i] EXCEPT !.operation_id = decs[i].func]
     ELSE decs[i]]

MissingIds(decs) == Cardinality({i \in 1..Len(decs) : decs[i].operation_id = NoId})

RECURSIVE SumMissing(_, _)
SumMissing(S, rts) ==
  IF S = {} THEN 0
  ELSE LET m == CHOOSE x \in S : TRUE
       IN MissingIds(rts[m]) + SumMissing(S \ {m}, rts)

\* fix_operation_ids(): the tree of route decorators after the scan, the
\* modules whose file was rewritten and the returned counts (lines 619-673)
fix_operation_ids(fs, rts) ==
  LET scanned == {m \in DOMAIN fs : fs[m].exists /\ fs[m].readable}
      fixed == {m \in scanned : MissingIds(rts[m]) > 0}
  IN [routes |-> [m \in DOMAIN rts |-> IF m \in fixed THEN AddOperationIds(rts[m]) ELSE rts[m]],
      report |-> [scanned |-> scanned,
                  fixed_modules |-> fixed,
                  modules_fixed |-> Cardinality(fixed),
                  decorators_fixed |-> SumMissing(fixed, rts)]]

\* ----------------------------------------------- api_fixer.APIRouterFixer
\* Statements the router fixer looks for by pattern.  Each is one symbol of
\* the text and stands alone on its line; to the compiler it is a simple
\* statement (a NAME).
IMPORT_OS == "import os"
FROM_FASTAPI == "from fastapi import HTTPException"
ROUTER_IMPORT == "from fastapi import APIRouter, HTTPException"
APIROUTER_SUFFIX == ", APIRouter"
ROUTER_COMMENT == "# Create API router"
ROUTER_DEF == "router = APIRouter()"
ROUTE == "@router.get('/x') def f(): pass"
MENTION == "# served through an APIRouter"

\* 'APIRouter' in content (line 303)
HasAPIRouter(content) ==
  \E i \in 1..Len(content) :
    content[i] \in {ROUTER_IMPORT, APIROUTER_SUFFIX, ROUTER_DEF, MENTION}

\* re.search(r'router\s*=\s*APIRouter\(', content) (line 304)
HasRouterDef(content) == \E i \in 1..Len(content) : content[i] = ROUTER_DEF

\* '@router.' in content
HasRouteDecorator(content) == \E i \in 1..Len(content) : content[i] = ROUTE

\* the symbols in which the pattern (?:import|from) finds a match
ImportSymbols == {IMPORT_OS, FROM_FASTAPI, ROUTER_IMPORT}

HasImports(content) == \E i \in 1..Len(content) : content[i] \in ImportSymbols

\* imports[-1].end(): the last match of (?:import|from).*?(?:\n|$) runs to
\* the end of its line, newline included; the number of symbols before that
\* position
LastImportEnd(content) ==
  LET last == CHOOSE i \in 1..Len(content) :
                /\ content[i] \in ImportSymbols
                /\ \A j \in (i+1)..Len(content) : content[j] \notin ImportSymbols
      ends == {j \in last..Len(content) : content[j] = NL}
  IN IF ends = {} THEN Len(content) ELSE CHOOSE j \in ends : \A k \in ends : j <= k

\* content[:k] + ins + content[k:]
InsertAt(content, k, ins) ==
  SubSeq(content, 1, k) \o ins \o SubSeq(content, k + 1, Len(content))

\* re.sub(r'from fastapi import ([^\n]*)', r'from fastapi import \1, APIRouter', content)
AddToFastapiImports(content) ==
  Join([i \in 1..Len(Split(content)) |->
          IF \E k \in 1..Len(Split(content)[i]) :
               Split(content)[i][k] \in {FROM_FASTAPI, ROUTER_IMPORT}
          THEN Split(content)[i] \o <<APIROUTER_SUFFIX>>
          ELSE Split(content)[i]])

\* not content.strip() (line 299)
IsBlank(content) == \A i \in 1..Len(content) : content[i] \in {SP, NL}

\* Fix 1 (lines 309-335) on st = [content, fixes]
AddRouterImport(st) ==
  IF HasImports(st.content)
  THEN [content |->
          IF \E i \in 1..Len(st.content) : st.content[i] \in {FROM_FASTAPI, ROUTER_IMPORT}
          THEN AddToFastapiImports(st.content)
          ELSE InsertAt(st.content, LastImportEnd(st.content), <<NL, ROUTER_IMPORT, NL>>),
        fixes |-> Append(st.fixes, "Added APIRouter import")]
  ELSE [content |-> <<ROUTER_IMPORT, NL, NL>> \o st.content,
        fixes |-> Append(st.fixes, "Added APIRouter import at beginning")]

\* Fix 2 (lines 337-356) on st = [content, fixes]
AddRouterDefinition(st) ==
  IF HasImports(st.content)
  THEN [content |-> InsertAt(st.content, LastImportEnd(st.content),
                             <<NL, NL, ROUTER_COMMENT, NL, ROUTER_DEF, NL, NL>>),
        fixes |-> Append(st.fixes, "Added router definition")]
  ELSE IF \E i \in 1..Len(st.content) : st.content[i] = ROUTER_IMPORT
  THEN [content |-> st.content \o <<NL, NL, ROUTER_COMMENT, NL, ROUTER_DEF, NL, NL>>,
        fixes |-> Append(st.fixes, "Added router definition at end")]
  ELSE st

\* lines 306-356: both fixes, each decided on the text as it was read
ApplyRouterFix1(content, st) ==
  IF ~HasAPIRouter(content) THEN AddRouterImport(st) ELSE st

ApplyRouterFix2(content, st) ==
  IF ~HasRouterDef(content) THEN AddRouterDefinition(st) ELSE st

\* a returned dict of fix_module_router.  The two early error returns
\* (lines 291, 300) have only module, status and message: keys is FALSE
\* for them
RouterResult(m, keys, had_import, had_def, fixed, fixes, message) ==
  [module |-> m, keys |-> keys, had_router_import |-> had_import,
   had_router_definition |-> had_def, fixed |-> fixed, fixes |-> fixes,
   message |-> message]

\* lines 358-378 for the text read and the outcome st of the two fixes
RouterOutcome(m, fs, content, st) ==
  IF st.fixes = <<>>
  THEN [result |-> RouterResult(m, TRUE, HasAPIRouter(content), HasRouterDef(content),
                                FALSE, <<>>, "No router issues to fix"),
        fs |-> fs, writes |-> <<>>]
  ELSE [result |-> RouterResult(m, TRUE, HasAPIRouter(content), HasRouterDef(content),
                                TRUE, st.fixes, "fixes applied"),
        fs |-> Written(m, fs, st.content), writes |-> WriteLog(m, st.content)]

\* APIRouterFixer.fix_module_router(module_name) on the tree fs
fix_module_router(m, fs) ==
  IF ~fs[m].exists
  THEN [result |-> RouterResult(m, FALSE, FALSE, FALSE, FALSE, <<>>, "Module not found"),
        fs |-> fs, writes |-> <<>>]
  ELSE IF ~fs[m].readable
  THEN [result |-> RouterResult(m, TRUE, FALSE, FALSE, FALSE, <<>>, "Error"),
        fs |-> fs, writes |-> <<>>]
  ELSE IF IsBlank(fs[m].content)
  THEN [result |-> RouterResult(m, FALSE, FALSE, FALSE, FALSE, <<>>, "Empty file"),
        fs |-> fs, writes |-> <<>>]
  ELSE RouterOutcome(m, fs, fs[m].content,
         ApplyRouterFix2(fs[m].content,
           ApplyRouterFix1(fs[m].content, [content |-> fs[m].content, fixes |-> <<>>])))

\* POST /fix-router (lines 457-472): a dict without the had_router_import
\* key makes the endpoint raise, answered 500
RouterResponse(r) == [code |-> IF r.keys THEN 200 ELSE 500, body |-> r]

\* ------------------------------------------------------ operation_id_fixer
\* One OperationId object (lines 68-73): value is the effective ID, module
\* the directory of the file, line_no the position of the decorator.
\* find_duplicate_operation_ids first walks the router files in the order
\* given and the decorators of each file in source order (lines 178-193).
RECURSIVE FileInstances(_, _, _)
FileInstances(m, decs, i) ==
  IF i > Len(decs) THEN <<>>
  ELSE <<[value |-> EffectiveId(decs[i]), module |-> m,
          function_name |-> decs[i].func, line_no |-> i]>>
       \o FileInstances(m, decs, i + 1)

RECURSIVE AllInstances(_, _, _)
AllInstances(router_files, rts, k) ==
  IF k > Len(router_files) THEN <<>>
  ELSE FileInstances(router_files[k], rts[router_files[k]], 1)
       \o AllInstances(router_files, rts, k + 1)

\* the keys of the operation_ids dict, in insertion order
RECURSIVE KeysInOrder(_, _, _)
KeysInOrder(insts, i, seen) ==
  IF i > Len(insts) THEN <<>>
  ELSE IF insts[i].value \in seen THEN KeysInOrder(insts, i + 1, seen)
  ELSE <<insts[i].value>> \o KeysInOrder(insts, i + 1, seen \cup {insts[i].value})

InstancesOf(insts, v) == SelectSeq(insts, LAMBDA x : x.value = v)

\* line 197: the entries with more than one instance, flattened in the
\* order in which suggest_fixes walks them (dict order, then list order)
RECURSIVE DuplicateInstances(_, _, _)
DuplicateInstances(insts, keys, k) ==
  IF k > Len(keys) THEN <<>>
  ELSE (IF Len(InstancesOf(insts, keys[k])) > 1 THEN InstancesOf(insts, keys[k]) ELSE <<>>)
       \o DuplicateInstances(insts, keys, k + 1)

find_duplicate_operation_ids(router_files, rts) ==
  DuplicateInstances(AllInstances(router_files, rts, 1),
                     KeysInOrder(AllInstances(router_files, rts, 1), 1, {}), 1)

\* generate_unique_operation_id (lines 199-212)
RECURSIVE SuffixedId(_, _, _)
SuffixedId(base_id, counter, used_operation_ids) ==
  IF (base_id \o "_" \o ToString(counter)) \in used_operation_ids
  THEN SuffixedId(base_id, counter + 1, used_operation_ids)
  ELSE base_id \o "_" \o ToString(counter)

generate_unique_operation_id(module_name, function_name, used_operation_ids) ==
  IF (module_name \o "_" \o function_name) \notin used_operation_ids
  THEN module_name \o "_" \o function_name
  ELSE SuffixedId(module_name \o "_" \o function_name, 1, used_operation_ids)

\* the second pass of suggest_fixes (lines 246-277): one fix per instance,
\* the ID handed out being added to used_operation_ids (line 262)
AssignId(inst, unique_id) ==
  [module |-> inst.module, line_no |-> inst.line_no, old |-> inst.value, new |-> unique_id]

RECURSIVE SecondPass(_, _, _)
SecondPass(dup, i, used_operation_ids) ==
  IF i > Len(dup) THEN <<>>
  ELSE LET unique_id == generate_unique_operation_id(dup[i].module, dup[i].function_name,
                                                     used_operation_ids)
       IN <<AssignId(dup[i], unique_id)>>
          \o SecondPass(dup, i + 1, used_operation_ids \cup {unique_id})

\* the first pass (lines 241-244): the IDs of the duplicated instances only
FirstPass(dup) == {dup[i].value : i \in 1..Len(dup)}

suggest_fixes(dup) == SecondPass(dup, 1, FirstPass(dup))

\* find_all_router_definitions (lines 92-115): the files of the walk that
\* hold a router construction, in walk order
find_all_router_definitions(order, fs) ==
  SelectSeq(order, LAMBDA m : fs[m].exists /\ fs[m].readable /\ HasRouterDef(fs[m].content))

\* extract_router_decorators (lines 117-172): a file that does not parse
\* yields no decorator
ExtractAll(fs, rts) ==
  [m \in DOMAIN rts |-> IF is_syntax_valid(fs[m].content) THEN rts[m] ELSE <<>>]

\* scan_and_report(directory) (lines 305-326)
ScanReport(router_files, insts) ==
  [router_files |-> router_files, instances |-> insts,
   duplicates |-> DuplicateInstances(insts, KeysInOrder(insts, 1, {}), 1),
   fixes |-> <<>>]

scan_and_report(order, fs, rts) ==
  ScanReport(find_all_router_definitions(order, fs),
             AllInstances(find_all_router_definitions(order, fs), ExtractAll(fs, rts), 1))

\* fix_duplicate_ids(directory, apply=False) (lines 328-351): the scan, then
\* suggest_fixes on what it found; no file is written
WithFixes(report) == [report EXCEPT !.fixes = suggest_fixes(report.duplicates)]

fix_duplicate_ids(order, fs, rts) == WithFixes(scan_and_report(order, fs, rts))

\* ---------------------------------------------- api_fixer.fix_api_file
\* Two more statements, written by fix_router_definition and by
\* fix_syntax_errors.  The texts explored hold no try statement and no
\* unbalanced parenthesis, so fix_try_except_blocks (lines 50-70) and the
\* parenthesis step of fix_syntax_errors (lines 147-156) leave them as they
\* are.
BARE_ROUTER_IMPORT == "from fastapi import APIRouter"
ROUTE_RM == "@router.get('/x', response_model=None) def f(): pass"

\* api_fixer.fix_router_definition(content) (lines 189-202)
fix_router_definition(content) ==
  IF ~HasRouterDef(content) /\ HasRouteDecorator(content) /\ HasImports(content)
  THEN InsertAt(content, LastImportEnd(content),
                <<NL, NL, BARE_ROUTER_IMPORT, NL, NL, ROUTER_DEF, NL>>)
  ELSE content

\* lines 158-166 of fix_syntax_errors: the APIRouter import
FixRouterImport(content) ==
  IF HasAPIRouter(content) \/ (\E i \in 1..Len(content) : content[i] = BARE_ROUTER_IMPORT)
  THEN content
  ELSE IF \E i \in 1..Len(content) : content[i] = FROM_FASTAPI
  THEN AddToFastapiImports(content)
  ELSE <<ROUTER_IMPORT, NL>> \o content

\* lines 173-186 of fix_syntax_errors: response_model=None in every route
\* decorator that has none
AddResponseModel(content) ==
  [i \in 1..Len(content) |-> IF content[i] = ROUTE THEN ROUTE_RM ELSE content[i]]

fix_syntax_errors(content) == AddResponseModel(FixRouterImport(content))

\* api_fixer.fix_unterminated_strings, lines 104-118: the quote appended to
\* the blamed line, nothing when no test applies
ApiFixerQuote(line) ==
  IF Count(line, SQ) % 2 = 1 /\ Count(line, DQ) % 2 = 0 THEN <<SQ>>
  ELSE IF Count(line, DQ) % 2 = 1 /\ Count(line, SQ) % 2 = 0 THEN <<DQ>>
  ELSE IF CountTriple(line, SQ, 1) % 2 = 1 THEN <<SQ, SQ, SQ>>
  ELSE IF CountTriple(line, DQ, 1) % 2 = 1 THEN <<DQ, DQ, DQ>>
  ELSE <<>>

\* lines 131-135: a quote at the end of the last line
CloseLastLine(lines) ==
  LET last == lines[Len(lines)] IN
  IF Count(last, DQ) > 0 /\ last[Len(last)] # DQ THEN Append1(lines, Len(lines), <<DQ>>)
  ELSE IF Count(last, SQ) > 0 /\ last[Len(last)] # SQ THEN Append1(lines, Len(lines), <<SQ>>)
  ELSE lines

\* lines 120-144: the pair (text, fixed) for the two candidate texts
StringsFixed(content, first, second) ==
  IF is_syntax_valid(first) THEN <<first, TRUE>>
  ELSE IF is_syntax_valid(second) THEN <<second, TRUE>>
  ELSE <<content, FALSE>>

StringsRetry(content, lines) == StringsFixed(content, Join(lines), Join(CloseLastLine(lines)))

\* api_fixer.fix_unterminated_strings(content) (lines 72-144) for the error e
\* of compile(content); a text the parser gives up on raises
api_fixer_fix_unterminated_strings(content, e) ==
  IF e.kind = "ok" \/ ~IsUnterminatedStringError(e) THEN <<content, FALSE>>
  ELSE IF e.detected <= 0 \/ e.detected > Len(Split(content)) THEN <<content, FALSE>>
  ELSE StringsRetry(content,
         Append1(Split(content), e.detected, ApiFixerQuote(Split(content)[e.detected])))

\* lines 218-239 of fix_api_file for the text after the first three fixers
ApiFileOutcome(m, fs, content, strings) ==
  IF (IF strings[2] THEN strings[1] ELSE content) # fs[m].content
  THEN [changed |-> TRUE,
        fs |-> Written(m, fs, IF strings[2] THEN strings[1] ELSE content),
        writes |-> WriteLog(m, IF strings[2] THEN strings[1] ELSE content)]
  ELSE [changed |-> FALSE, fs |-> fs, writes |-> <<>>]

ApiFileStrings(m, fs, content, e) ==
  IF e.kind = "parser_overflow"
  THEN [changed |-> FALSE, fs |-> fs, writes |-> <<>>]
  ELSE ApiFileOutcome(m, fs, content, api_fixer_fix_unterminated_strings(content, e))

ApiFileFixed(m, fs, content) == ApiFileStrings(m, fs, content, Compile(content))

\* api_fixer.fix_api_file(api_name) (lines 204-239)
fix_api_file(m, fs) ==
  IF ~fs[m].exists \/ ~fs[m].readable
  THEN [changed |-> FALSE, fs |-> fs, writes |-> <<>>]
  ELSE ApiFileFixed(m, fs, fix_syntax_errors(fix_router_definition(fs[m].content)))

\* APIS_TO_FIX (lines 35-47) and "supabase_cms", as far as Modules goes
APIS_TO_FIX == {"properties"}

\* POST /fix-module (lines 544-571)
ApiFixResult(m, status, message) == [module |-> m, status |-> status, message |-> message]

ApiFixAnswer(m, r) ==
  [answer |-> IF r.changed THEN ApiFixResult(m, "fixed", "Fixed syntax issues")
              ELSE ApiFixResult(m, "ok", "No syntax issues to fix"),
   fs |-> r.fs, writes |-> r.writes]

api_fixer_fix_module_syntax(m, fs) ==
  IF m \notin APIS_TO_FIX
  THEN [answer |-> ApiFixResult(m, "skipped", "Module not in fix list"), fs |-> fs, writes |-> <<>>]
  ELSE ApiFixAnswer(m, fix_api_file(m, fs))

\* ------------------------------------------------------------ module_fixer
\* Pieces of a route decorator and of the function it decorates.  A line of
\* such a file is a sequence of these symbols; none of them holds an odd
\* number of quote characters.
DEC_OPEN == "@router.get('/x'"
DEC_ARG == ", tags=['a']"
RPAREN == ")"
OPID == ", operationId=\"f\""
DEF_HEAD == "def f("
COLON == ":"

\* line.strip(): the line without its leading and trailing blanks
RECURSIVE Strip(_)
Strip(line) ==
  IF line = <<>> THEN line
  ELSE IF line[1] = SP THEN Strip(Tail(line))
  ELSE IF line[Len(line)] = SP THEN Strip(SubSeq(line, 1, Len(line) - 1))
  ELSE line

\* line.strip().startswith('#')
IsCommentLine(line) == Strip(line) # <<>> /\ Strip(line)[1] \in {ROUTER_COMMENT, MENTION}

\* fix_unterminated_strings, the loop body (lines 115-127): a double quote
\* is appended first, then the single-quote count of the result decides
CloseQuotes(line) ==
  LET d == IF Count(line, DQ) % 2 = 1 THEN line \o <<DQ>> ELSE line
  IN IF IsCommentLine(line) THEN line
     ELSE IF Count(d, SQ) % 2 = 1 THEN d \o <<SQ>> ELSE d

CloseAllQuotes(content) ==
  Join([i \in 1..Len(Split(content)) |-> CloseQuotes(Split(content)[i])])

\* what a fixer of module_fixer returns and leaves on disk
ModuleFixOutcome(m, fs, success, message, content) ==
  [success |-> success, message |-> message,
   fs |-> IF success THEN Written(m, fs, content) ELSE fs,
   writes |-> IF success THEN WriteLog(m, content) ELSE <<>>]

\* lines 129-137: the file is written only when the text changed
StringsOutcome(m, fs, content) ==
  IF content # fs[m].content
  THEN ModuleFixOutcome(m, fs, TRUE, "Fixed unterminated strings", content)
  ELSE ModuleFixOutcome(m, fs, FALSE, "No unterminated strings found", content)

\* module_fixer.fix_unterminated_strings(file_path) (lines 104-141)
fix_unterminated_strings(m, fs) ==
  IF ~fs[m].readable
  THEN ModuleFixOutcome(m, fs, FALSE, "Error fixing strings", <<>>)
  ELSE StringsOutcome(m, fs, CloseAllQuotes(fs[m].content))

\* the tests of lines 196-201 on one line
IsDecoratorLine(line) == \E k \in 1..Len(line) : line[k] = DEC_OPEN
HasOperationId(line) == \E k \in 1..Len(line) : line[k] = OPID
HasDef(line) == \E k \in 1..Len(line) : line[k] = DEF_HEAD
EndsWithParen(line) == Strip(line) # <<>> /\ Strip(line)[Len(Strip(line))] = RPAREN
FirstParen(line) == CHOOSE k \in 1..Len(line) : line[k] = RPAREN /\ \A j \in 1..(k - 1) : line[j] # RPAREN

\* range(i+1, min(i+5, len(lines))): a def within the next four lines
DefFollows(lines, i) ==
  \E j \in (i + 1)..(IF i + 4 < Len(lines) THEN i + 4 ELSE Len(lines)) : HasDef(lines[j])

\* lines 204-213: the ID goes in front of the last character of the
\* decorator line if the stripped line ends with ")", else in front of the
\* first ")" of the next line
AddOperationId(lines, i) ==
  IF EndsWithParen(lines[i])
  THEN [lines EXCEPT ![i] = SubSeq(lines[i], 1, Len(lines[i]) - 1) \o <<OPID, RPAREN>>]
  ELSE IF \E k \in 1..Len(lines[i + 1]) : lines[i + 1][k] = RPAREN
  THEN [lines EXCEPT ![i + 1] =
          SubSeq(lines[i + 1], 1, FirstParen(lines[i + 1]) - 1) \o <<OPID>>
          \o SubSeq(lines[i + 1], FirstParen(lines[i + 1]), Len(lines[i + 1]))]
  ELSE lines

\* `for i, line in enumerate(lines)` (lines 194-214), lines being rewritten
\* while the loop runs
RECURSIVE OperationIdLoop(_, _)
OperationIdLoop(lines, i) ==
  IF i > Len(lines) THEN lines
  ELSE IF IsDecoratorLine(lines[i]) /\ ~HasOperationId(lines[i]) /\ DefFollows(lines, i)
  THEN OperationIdLoop(AddOperationId(lines, i), i + 1)
  ELSE OperationIdLoop(lines, i + 1)

OperationIdsOutcome(m, fs, content) ==
  IF content # fs[m].content
  THEN ModuleFixOutcome(m, fs, TRUE, "Fixed operation_ids", content)
  ELSE ModuleFixOutcome(m, fs, FALSE, "No operation_id issues found", content)

\* module_fixer.fix_operation_ids(file_path) (lines 185-228)
module_fixer_fix_operation_ids(m, fs) ==
  IF ~fs[m].readable
  THEN ModuleFixOutcome(m, fs, FALSE, "Error fixing operation_ids", <<>>)
  ELSE OperationIdsOutcome(m, fs, Join(OperationIdLoop(Split(fs[m].content), 1)))

\* ------------------------------------------------- string_literal_fixer
\* the triple (fixed_content, was_fixed, message) that
\* fix_unterminated_string_literal returns
LiteralAnswer(content, was_fixed, message) ==
  [content |-> content, was_fixed |-> was_fixed, message |-> message]

\* line 142: on failure the text handed in is returned, not the edited lines
LiteralFailure_KeepsEdits(content, lines) == LiteralAnswer(Join(lines), FALSE, "Failed to fix")

LiteralFailure(content, lines) == LiteralAnswer(content, FALSE, "Failed to fix")

\* lines 133-142: both triple quotes appended as two lines, then validated
LastResort(content, lines) ==
  IF is_syntax_valid(Join(lines \o <<<<DQ, DQ, DQ>>, <<SQ, SQ, SQ>>>>))
  THEN LiteralAnswer(Join(lines \o <<<<DQ, DQ, DQ>>, <<SQ, SQ, SQ>>>>), TRUE,
                     "Fixed by adding closing quotes at end of file")
  ELSE LiteralFailure(content, lines \o <<<<DQ, DQ, DQ>>, <<SQ, SQ, SQ>>>>)

\* lines[i].strip().startswith(('def ', 'class ', 'import ', 'from '))
StartsDefinition(line) ==
  Strip(line) # <<>> /\ Strip(line)[1] \in ImportSymbols \cup {BARE_ROUTER_IMPORT, DEF_HEAD}

\* range(line_number, min(line_number + 10, len(lines))): the lines after
\* the blamed one that start a definition or an import
DefinitionsAfter(lines, n) ==
  {i \in (n + 1)..(IF n + 10 < Len(lines) THEN n + 10 ELSE Len(lines)) : StartsDefinition(lines[i])}

ClosingQuote(line) ==
  IF CountTriple(line, DQ, 1) > 0 THEN <<DQ, DQ, DQ>> ELSE <<SQ, SQ, SQ>>

\* line 123: the closing quote and a newline go in front of that line
CloseDocstring(lines, i, q) == [lines EXCEPT ![i] = q \o <<NL>> \o lines[i]]

DocstringClosed(content, closed) ==
  IF is_syntax_valid(Join(closed))
  THEN LiteralAnswer(Join(closed), TRUE, "Fixed unterminated docstring")
  ELSE LastResort(content, closed)

\* lines 114-130; line is the blamed line as it was read, lines the list
\* after the simple fix
DocstringFix(content, lines, n, line) ==
  IF n <= 3 /\ (CountTriple(line, DQ, 1) > 0 \/ CountTriple(line, SQ, 1) > 0)
       /\ DefinitionsAfter(lines, n) # {}
  THEN DocstringClosed(content,
         CloseDocstring(lines,
                        CHOOSE i \in DefinitionsAfter(lines, n) :
                          \A j \in DefinitionsAfter(lines, n) : i <= j,
                        ClosingQuote(line)))
  ELSE LastResort(content, lines)

\* lines 102-110: the simple fix, kept in lines whether or not it validates
SimpleFixed(content, lines, n, line, fixed_lines) ==
  IF is_syntax_valid(Join(fixed_lines))
  THEN LiteralAnswer(Join(fixed_lines), TRUE, "Fixed line")
  ELSE DocstringFix(content, fixed_lines, n, line)

SimpleFix(content, lines, n) ==
  IF detect_unclosed_quotes(lines[n])[1]
  THEN SimpleFixed(content, lines, n, lines[n],
                   Append1(lines, n, detect_unclosed_quotes(lines[n])[2]))
  ELSE DocstringFix(content, lines, n, lines[n])

\* fix_unterminated_string_literal(content, error) (lines 64-142), error
\* being what is_valid_python(content) returned
fix_unterminated_string_literal(content, e) ==
  IF ~IsUnterminatedStringError(e)
  THEN LiteralAnswer(content, FALSE, "Not a string literal error")
  ELSE IF e.detected <= 0 \/ e.detected > Len(Split(content))
  THEN LiteralAnswer(content, FALSE, "Invalid line number")
  ELSE SimpleFix(content, Split(content), e.detected)

NotCalled == [LiteralAnswer(<<>>, FALSE, "") EXCEPT !.message = "not called"]

\* lines 225-245 of fix_module_string_literals for the answer a
LiteralOutcome(m, fs, a) ==
  IF a.was_fixed
  THEN [DirectOutcome(m, "fixed", a.message, Written(m, fs, a.content), WriteLog(m, a.content))
          EXCEPT !.result.fixes = <<a.message>>] @@ [literal |-> a]
  ELSE DirectOutcome(m, "error", a.message, fs, <<>>) @@ [literal |-> a]

LiteralChecked(m, fs, e) ==
  IF e.kind = "ok"
  THEN DirectOutcome(m, "ok", "No unterminated string literals found", fs, <<>>)
         @@ [literal |-> NotCalled]
  ELSE LiteralOutcome(m, fs, fix_unterminated_string_literal(fs[m].content, e))

\* string_literal_fixer.fix_module_string_literals(module_name) (lines 144-210)
string_literal_fixer_fix_module(m, fs) ==
  IF ~fs[m].exists
  THEN DirectOutcome(m, "error", "__init__.py file does not exist", fs, <<>>)
         @@ [literal |-> NotCalled]
  ELSE IF ~fs[m].readable
  THEN DirectOutcome(m, "error", "Error fixing module", fs, <<>>) @@ [literal |-> NotCalled]
  ELSE LiteralChecked(m, fs, Compile(fs[m].content))

\* ------------------------------------------------- enhanced_string_fixer
EndsWith(line, q) == Len(line) > 0 /\ line[Len(line)] = q

\* fix_complex_string_termination(line) (lines 90-115): the quote the line
\* ends inside of, <<>> if none
RECURSIVE ComplexScan(_, _, _, _, _)
ComplexScan(line, i, in_single_quote, in_double_quote, escaped) ==
  IF i > Len(line)
  THEN (IF in_single_quote THEN <<SQ>> ELSE IF in_double_quote THEN <<DQ>> ELSE <<>>)
  ELSE IF line[i] = BS /\ ~escaped
  THEN ComplexScan(line, i + 1, in_single_quote, in_double_quote, TRUE)
  ELSE IF line[i] = SQ /\ ~in_double_quote /\ ~escaped
  THEN ComplexScan(line, i + 1, ~in_single_quote, in_double_quote, FALSE)
  ELSE IF line[i] = DQ /\ ~in_single_quote /\ ~escaped
  THEN ComplexScan(line, i + 1, in_single_quote, ~in_double_quote, FALSE)
  ELSE ComplexScan(line, i + 1, in_single_quote, in_double_quote, FALSE)

fix_complex_string_termination(line) ==
  line \o ComplexScan(line, 1, FALSE, FALSE, FALSE)

\* lines 62-86: what fix_string_literal makes of the blamed line
FixedLine(line) ==
  IF Count(line, SQ) % 2 = 1 /\ Count(line, DQ) = 0 THEN line \o <<SQ>>
  ELSE IF Count(line, DQ) % 2 = 1 /\ Count(line, SQ) = 0 THEN line \o <<DQ>>
  ELSE IF CountTriple(line, SQ, 1) % 2 = 1 THEN line \o <<SQ, SQ, SQ>>
  ELSE IF CountTriple(line, DQ, 1) % 2 = 1 THEN line \o <<DQ, DQ, DQ>>
  ELSE IF Count(line, SQ) > 0 /\ ~EndsWith(line, SQ) /\ Count(line, SQ) % 2 = 1
  THEN line \o <<SQ>>
  ELSE IF Count(line, DQ) > 0 /\ ~EndsWith(line, DQ) /\ Count(line, DQ) % 2 = 1
  THEN line \o <<DQ>>
  ELSE fix_complex_string_termination(line)

\* fix_string_literal(code, line_number) (lines 45-88)
fix_string_literal(code, line_number) ==
  IF line_number <= 0 \/ line_number > Len(Split(code)) THEN code
  ELSE Join([Split(code) EXCEPT ![line_number] = FixedLine(@)])

\* lines 164-169: the quote the widened retry appends to a line, <<>> if none
AggressiveQuote(line) ==
  IF Count(line, DQ) > 0 /\ ~EndsWith(line, DQ) THEN <<DQ>>
  ELSE IF Count(line, SQ) > 0 /\ ~EndsWith(line, SQ) THEN <<SQ>>
  ELSE <<>>

\* range(max(1, line_number-1), min(len(lines)+1, line_number+2))
AggressiveWindow(lines, line_number) ==
  (IF line_number - 1 > 1 THEN line_number - 1 ELSE 1)
    ..(Min2(Len(lines) + 1, line_number + 2) - 1)

\* lines 160-171: the lines after the widened retry
AggressiveLines(lines, line_number) ==
  [k \in 1..Len(lines) |->
     IF k \in AggressiveWindow(lines, line_number)
     THEN lines[k] \o AggressiveQuote(lines[k]) ELSE lines[k]]

\* an entry of fixes_applied: what was done, to which line, for which
\* reported line, and the line as it was
Fix(kind, line, reported, was) ==
  [kind |-> kind, line |-> line, reported |-> reported, was |-> was]

RECURSIVE AggressiveFixes(_, _, _)
AggressiveFixes(lines, line_number, k) ==
  IF k > Len(lines) THEN <<>>
  ELSE (IF k \in AggressiveWindow(lines, line_number) /\ AggressiveQuote(lines[k]) # <<>>
        THEN <<Fix(IF AggressiveQuote(lines[k]) = <<DQ>> THEN "Aggressively fixed double quote"
                   ELSE "Aggressively fixed single quote", k, line_number, lines[k])>>
        ELSE <<>>) \o AggressiveFixes(lines, line_number, k + 1)

\* max_iterations = 10 (line 137)
enhanced_max_iterations == 10

\* the loop of lines 141-205 with force_fix = False; e is what
\* compile(content) raises.  The test of lines 204-205 and the test at the
\* head of the next iteration stop the loop on the same texts.
RECURSIVE EnhancedLoop(_, _, _, _)
EnhancedNext(content, i, fixes) == EnhancedLoop(content, i + 1, fixes, Compile(content))

EnhancedRetry(content, i, fixes, n, lines) ==
  IF lines # Split(content)
  THEN EnhancedNext(Join(lines), i, fixes \o AggressiveFixes(Split(content), n, 1))
  ELSE [content |-> content,
        fixes |-> fixes \o <<Fix("Failed to fix string", n, n, Split(content)[n])>>]

EnhancedStep(content, i, fixes, n, fixed_content) ==
  IF fixed_content # content
  THEN EnhancedNext(fixed_content, i,
                    fixes \o <<Fix("Fixed unterminated string", n, n, Split(content)[n])>>)
  ELSE EnhancedRetry(content, i, fixes, n, AggressiveLines(Split(content), n))

EnhancedLoop(content, i, fixes, e) ==
  IF i >= enhanced_max_iterations \/ ~IsUnterminatedStringError(e)
  THEN [content |-> content, fixes |-> fixes]
  ELSE EnhancedStep(content, i, fixes, e.detected, fix_string_literal(content, e.detected))

EnhancedAnswer(status, fixes, fs, w) == [status |-> status, fixes |-> fixes, fs |-> fs, writes |-> w]

\* lines 208-232
EnhancedVerdict(m, fs, original_content, r, valid) ==
  IF valid /\ r.content # original_content
  THEN EnhancedAnswer("fixed", r.fixes, Written(m, fs, r.content), WriteLog(m, r.content))
  ELSE IF valid THEN EnhancedAnswer("no_issues", <<>>, fs, <<>>)
  ELSE EnhancedAnswer("unfixable", r.fixes, fs, <<>>)

EnhancedFixed(m, fs, r) == EnhancedVerdict(m, fs, fs[m].content, r, is_syntax_valid(r.content))

\* is_syntax_valid lets everything but SyntaxError through to the handler
\* of lines 233-240
EnhancedChecked(m, fs, e) ==
  IF e.kind = "parser_overflow" THEN EnhancedAnswer("error", <<>>, fs, <<>>)
  ELSE EnhancedFixed(m, fs, EnhancedLoop(fs[m].content, 0, <<>>, e))

\* the part fix_module_string_literals_enhanced(module_name) and
\* fix_file_string_literals(file_path) share: read, repair, verdict
EnhancedRepair(m, fs) ==
  IF ~fs[m].readable THEN EnhancedAnswer("error", <<>>, fs, <<>>)
  ELSE EnhancedChecked(m, fs, Compile(fs[m].content))

\* fix_module_string_literals_enhanced(module_name, force_fix=False) (lines 117-240)
fix_module_string_literals_enhanced(m, fs) ==
  IF ~fs[m].exists THEN EnhancedAnswer("error", <<>>, fs, <<>>)
  ELSE EnhancedRepair(m, fs)

\* fix_file_string_literals(file_path) (lines 274-372) on the __init__.py of m
fix_file_string_literals(m, fs) ==
  IF ~fs[m].exists THEN EnhancedAnswer("error", <<>>, fs, <<>>)
  ELSE EnhancedRepair(m, fs)

NoEnhanced == [status |-> "none", fixes |-> <<>>]

\* ------------------------------------------------------------ rate_limiter
\* dall_e_limiter = RateLimiter(max_calls=5, period=60) (property_images line 67)
max_calls == 5
period == 60

\* RateLimiter.__init__ (lines 17-29), the clock reading 0 at construction;
\* granted counts the calls answered True, holder tells whether a caller
\* sleeps inside acquire with the lock held, and until when
NewLimiter ==
  [tokens |-> max_calls, last_refill |-> 0, now |-> 0, granted |-> 0,
   holder |-> "none", wake |-> 0]

\* RateLimiter._refill (lines 31-39) at the clock reading l.now; the clock
\* advances in steps of period / max_calls seconds, so that the refill
\* amount is a whole number of tokens
_refill(l) ==
  [l EXCEPT !.tokens = Min2(max_calls, l.tokens + ((l.now - l.last_refill) * max_calls) \div period),
            !.last_refill = l.now]

\* lines 56-65 of acquire(1): too few tokens after the refill
AcquireWait(l, wait_time) ==
  IF wait_time <= 30
  THEN [l EXCEPT !.holder = "sleeping", !.wake = l.now + wait_time]
  ELSE l

\* acquire(1) up to its return or its sleep (lines 51-61), l refilled
AcquireRefilled(l) ==
  IF 1 <= l.tokens
  THEN [l EXCEPT !.tokens = l.tokens - 1, !.granted = l.granted + 1]
  ELSE AcquireWait(l, (1 - l.tokens) * (period \div max_calls))

\* lines 62-64: the sleeper wakes, empties the bucket and returns True
AcquireWoken(l) ==
  [l EXCEPT !.tokens = 0, !.granted = l.granted + 1, !.holder = "none", !.wake = 0]

\* ------------------------------------------------------------ health_check
\* check_module_health(module_path) for an __init__.py that exists: the
\* pair it returns; raised is set when an exception leaves the function
HealthVerdict(healthy, error) == [healthy |-> healthy, error |-> error, raised |-> FALSE]

\* a failing open()/read() is caught by the outer except clause (lines 56-57)
UnreadableVerdict_Propagates == [healthy |-> FALSE, error |-> "", raised |-> TRUE]

UnreadableVerdict == HealthVerdict(FALSE, "Error checking module")

check_module_health(f) ==
  IF ~f.readable THEN UnreadableVerdict
  ELSE IF Compile(f.content).kind = "ok" THEN HealthVerdict(TRUE, "")
  ELSE IF IsSyntaxError(Compile(f.content)) THEN HealthVerdict(FALSE, "Syntax error")
  ELSE HealthVerdict(FALSE, "Error parsing module")

ModuleHealth(module_name, status, error) ==
  [module_name |-> module_name, status |-> status, error |-> error]

\* lines 89-100 for one module, v being what check_module_health returned
HealthEntry(acc, module, v) ==
  IF v.raised THEN [acc EXCEPT !.raised = TRUE]
  ELSE IF v.healthy
  THEN [acc EXCEPT !.healthy_modules = Append(@, ModuleHealth(module, "healthy", "")),
                   !.healthy_count = @ + 1]
  ELSE [acc EXCEPT !.unhealthy_modules = Append(@, ModuleHealth(module, "unhealthy", v.error)),
                   !.unhealthy_count = @ + 1]

\* the `for module_name, module_path in all_modules` loop (lines 88-100)
RECURSIVE HealthLoop(_, _, _, _)
HealthLoop(all_modules, k, fs, acc) ==
  IF k > Len(all_modules) \/ acc.raised THEN acc
  ELSE HealthLoop(all_modules, k + 1, fs,
                  HealthEntry(acc, all_modules[k], check_module_health(fs[all_modules[k]])))

\* lines 62-69
EmptyHealth ==
  [status |-> "healthy", total_modules |-> 0, healthy_count |-> 0, unhealthy_count |-> 0,
   healthy_modules |-> <<>>, unhealthy_modules |-> <<>>, raised |-> FALSE]

\* lines 102-108, and 110-127 when an exception reached the outer handler
HealthResponse(all_modules, acc) ==
  IF acc.raised
  THEN [EmptyHealth EXCEPT !.status = "error",
          !.unhealthy_modules = <<ModuleHealth("health_check", "error", "Error running health check")>>]
  ELSE [acc EXCEPT !.total_modules = Len(all_modules),
                   !.status = IF acc.unhealthy_count > 0 THEN "unhealthy" ELSE "healthy"]

\* check_health() for one directory listing
check_health(all_modules, fs) ==
  HealthResponse(all_modules, HealthLoop(all_modules, 1, fs, EmptyHealth))

\* ------------------------------------------------------------------ state
VARIABLES
  files,     \* [Modules -> file]: the __init__.py of each module directory
  pre,       \* the tree as it was when the last request started
  op,        \* the last request served: [name, module]
  result,    \* what the last single-module request returned
  writes,    \* the file writes the last single-module request performed
  reports,   \* the reports of the fix-all-modules-syntax requests so far
  dirOrder,  \* the order in which the file system lists APIS_DIR
  routes,    \* [Modules -> route decorators of the module's file]
  scan,      \* what the last operation-id scan returned
  health,    \* what the last health check returned
  checked,   \* what the last check-module request was answered
  routed,    \* what the last fix-router request was answered
  race,      \* the two concurrent requests of SpecRace: position, text read, finishing order
  dups,      \* the last duplicate-ID pass: the duplicates found and the IDs suggested
  modfix,    \* what the last module_fixer call returned, and the calls made so far
  apifix,    \* what the last /fix-module request of api_fixer was answered
  literal,   \* what fix_unterminated_string_literal returned to the last request
  enhanced,  \* what the last call of the enhanced string fixer returned: status and fixes_applied
  limiter    \* the RateLimiter dall_e_limiter and the clock
\* result, writes and checked describe the last request only

vars == <<files, pre, op, result, writes, reports, dirOrder, routes, scan, health, checked, routed, race, dups, modfix, apifix, literal, enhanced, limiter>>

NoRoutes == [m \in Modules |-> <<>>]
NoScan == [scanned |-> {}, fixed_modules |-> {}, modules_fixed |-> 0, decorators_fixed |-> 0]

DirOrders == {s \in [1..Cardinality(Modules) -> Modules] :
                \A i, j \in 1..Cardinality(Modules) : s[i] = s[j] => i = j}

SomeDirOrder == CHOOSE s \in DirOrders : TRUE

NoOp == [name |-> "none", module |-> ""]
NoDups == [router_files |-> <<>>, instances |-> <<>>, duplicates |-> <<>>, fixes |-> <<>>]
NoModFix == [success |-> FALSE, message |-> "", previous |-> NoOp, fixed_before |-> FALSE, runs |-> 0]
NoApiFix == [module |-> "", status |-> "none", message |-> ""]
NoHealth == [EmptyHealth EXCEPT !.status = "none"]
NoCheck == CheckResponse(0, "", FALSE, <<>>, "")
NoRace ==
  [syntax |-> [pc |-> "idle", view |-> MissingFile],
   router |-> [pc |-> "idle", view |-> MissingFile],
   order |-> <<>>]
NoRouted == [code |-> 0, body |-> RouterResult("", FALSE, FALSE, FALSE, FALSE, <<>>, "")]

MaxRuns == 2           \* fix-all-modules-syntax requests explored by SpecBatch

\* --- single-module repair requests over every short file text ------------
RepairFiles ==
  {MissingFile, UnreadableFile, DeepFile, ExampleFile, SyntheticFile} \cup {MkFile(TRUE, TRUE, c) : c \in Contents(MaxLen)}

InitRepair ==
  /\ \E f \in RepairFiles :
       files = [m \in Modules |-> IF m = "properties" THEN f ELSE ValidFile]
  /\ pre = files
  /\ op = NoOp
  /\ result = NoResult
  /\ writes = <<>>
  /\ reports = <<>>
  /\ dirOrder = SomeDirOrder
  /\ routes = NoRoutes
  /\ scan = NoScan
  /\ health = NoHealth
  /\ checked = NoCheck
  /\ routed = NoRouted
  /\ race = NoRace
  /\ dups = NoDups
  /\ modfix = NoModFix
  /\ apifix = NoApiFix
  /\ literal = NotCalled
  /\ enhanced = NoEnhanced
  /\ limiter = NewLimiter

\* POST /fix-module-syntax {module: m}: fix_module_syntax_endpoint
\* (lines 266-284); an exception escaping fix_module_syntax is answered
\* with status "error"
RepairCall(m, r) ==
  /\ pre' = files
  /\ files' = r.fs
  /\ op' = [name |-> "fix_module_syntax", module |-> m]
  /\ result' = IF r.result.status = "raised"
                THEN MkError(m, "error", "Error", r.result.detail)
                ELSE r.result
  /\ writes' = r.writes
  /\ checked' = NoCheck
  /\ UNCHANGED <<reports, dirOrder, routes, scan, health, routed, race, dups, modfix, apifix, literal, enhanced, limiter>>

FixModuleSyntax(m) == RepairCall(m, fix_module_syntax(m, files))

\* POST /check-module {module: m}
CheckCall(m, r) ==
  /\ pre' = files
  /\ op' = [name |-> "check_api_consistency", module |-> m]
  /\ checked' = r
  /\ result' = NoResult
  /\ writes' = <<>>
  /\ UNCHANGED <<files, reports, dirOrder, routes, scan, health, routed, race, dups, modfix, apifix, literal, enhanced, limiter>>

CheckModule(m) == CheckCall(m, check_api_consistency(m, files))

NextRepair ==
  \E m \in Modules :
    \/ FixModuleSyntax(m)
    \/ CheckModule(m)

SpecRepair == InitRepair /\ [][NextRepair]_vars

\* --- batch requests over a tree of sample files ---------------------------
SampleFiles ==
  {MissingFile, UnreadableFile,
   MkFile(TRUE, TRUE, <<LETTER>>),            \* valid
   MkFile(TRUE, TRUE, <<SQ, LETTER>>),        \* repairable: 'a
   MkFile(TRUE, TRUE, <<LETTER, SQ>>),        \* a' : the quote is added, still invalid
   MkFile(TRUE, TRUE, <<LETTER, SQ, SQ>>),    \* a'' : not a string error
   MkFile(TRUE, TRUE, <<SQ, NL, DQ>>)}        \* two lines, one repair each

\* the excluded modules take fewer shapes: the scan never opens them
SelfFiles == {MissingFile, MkFile(TRUE, TRUE, <<LETTER>>), MkFile(TRUE, TRUE, <<SQ, LETTER>>)}
FixerFiles == {MkFile(TRUE, TRUE, <<LETTER>>), MkFile(TRUE, TRUE, <<SQ, LETTER>>)}

InitBatch ==
  /\ \E fc \in SelfFiles, ff \in FixerFiles, fs2 \in SampleFiles, fp \in SampleFiles :
       files = [m \in Modules |->
                  CASE m = "api_consistency" -> fc
                    [] m = "api_fixer" -> ff
                    [] m = "string_fixer2" -> fs2
                    [] OTHER -> fp]
  /\ pre = files
  /\ op = NoOp
  /\ result = NoResult
  /\ writes = <<>>
  /\ reports = <<>>
  /\ dirOrder \in DirOrders
  /\ routes = NoRoutes
  /\ scan = NoScan
  /\ health = NoHealth
  /\ checked = NoCheck
  /\ routed = NoRouted
  /\ race = NoRace
  /\ dups = NoDups
  /\ modfix = NoModFix
  /\ apifix = NoApiFix
  /\ literal = NotCalled
  /\ enhanced = NoEnhanced
  /\ limiter = NewLimiter

\* POST /fix-all-modules-syntax {}
BatchCall(r) ==
  /\ pre' = files
  /\ files' = r.fs
  /\ op' = [name |-> "fix_all_modules_syntax", module |-> ""]
  /\ reports' = Append(reports, r.report)
  /\ UNCHANGED <<result, writes, dirOrder, routes, scan, health, checked, routed, race, dups, modfix, apifix, literal, enhanced, limiter>>

FixAllModulesSyntax ==
  /\ Len(reports) < MaxRuns
  /\ BatchCall(fix_all_modules_syntax(Listing(files, dirOrder), files))

NextBatch == FixAllModulesSyntax

SpecBatch == InitBatch /\ [][NextBatch]_vars

\* --- one request to a direct string-literal fixer ------------------------
DirectCall(name, m, r) ==
  /\ op = NoOp
  /\ pre' = files
  /\ files' = r.fs
  /\ op' = [name |-> name, module |-> m]
  /\ result' = r.result
  /\ writes' = r.writes
  /\ UNCHANGED <<reports, dirOrder, routes, scan, health, checked, routed, race, dups, modfix, apifix, literal, enhanced, limiter>>

\* GET /fix-all-modules/fix_module/{m}; a missing module is answered 404
\* before fix_file is called (fix_all_modules lines 60-75)
FixFile(m) == files[m].exists /\ DirectCall("fix_file", m, fix_file(m, files))

\* POST /string-fixer3/fix-string-literals3
FixStringLiterals3(m) == DirectCall("fix_string_literals3", m, fix_string_literals3(m, files))

\* POST /string-fixer2/fix-string-literals
FixStringLiterals2(m) == DirectCall("fix_string_literals", m, fix_string_literals(m, files))

NextDirect ==
  \E m \in Modules :
    \/ FixFile(m)
    \/ FixStringLiterals3(m)
    \/ FixStringLiterals2(m)

SpecDirect == InitRepair /\ [][NextDirect]_vars

\* --- the operation-id scan over trees of route decorators -----------------
InitOpId ==
  /\ \E ff \in {ValidFile, UnreadableFile} :
       files = [m \in Modules |-> IF m = "string_fixer2" THEN ff ELSE ValidFile]
  /\ pre = files
  /\ op = NoOp
  /\ result = NoResult
  /\ writes = <<>>
  /\ reports = <<>>
  /\ dirOrder = SomeDirOrder
  /\ \E rp \in RouteLists(MaxRoutes), rf \in RouteLists(MaxRoutes),
        rs \in RouteLists(1) :
       routes = [m \in Modules |->
                   CASE m = "properties" -> rp
                     [] m = "api_fixer" -> rf
                     [] m = "string_fixer2" -> rs
                     [] OTHER -> <<>>]
  /\ scan = NoScan
  /\ health = NoHealth
  /\ checked = NoCheck
  /\ routed = NoRouted
  /\ race = NoRace
  /\ dups = NoDups
  /\ modfix = NoModFix
  /\ apifix = NoApiFix
  /\ literal = NotCalled
  /\ enhanced = NoEnhanced
  /\ limiter = NewLimiter

\* POST /operation-id-fixer-scan
ScanCall(r) ==
  /\ pre' = files
  /\ routes' = r.routes
  /\ scan' = r.report
  /\ op' = [name |-> "fix_operation_ids", module |-> ""]
  /\ UNCHANGED <<files, result, writes, reports, dirOrder, health, checked, routed, race, dups, modfix, apifix, literal, enhanced, limiter>>

FixOperationIds == ScanCall(fix_operation_ids(files, routes))

NextOpId == FixOperationIds

SpecOpId == InitOpId /\ [][NextOpId]_vars

\* --- the duplicate-ID pass of operation_id_fixer ---------------------------
\* decorators with an explicit ID equal to an ID the pass can generate
DupDecorators == [operation_id : {NoId, "properties_f"}, func : FuncNames]
DupRouteLists(n) == UNION {[1..k -> DupDecorators] : k \in 0..n}
RouterFile == MkFile(TRUE, TRUE, <<ROUTER_DEF>>)
BrokenRouterFile == MkFile(TRUE, TRUE, <<ROUTER_DEF, NL, SQ>>)
WalkOrders == {<<"properties", "api_fixer", "api_consistency", "string_fixer2">>,
               <<"api_fixer", "string_fixer2", "properties", "api_consistency">>}

InitDup ==
  /\ \E ff \in {RouterFile, ValidFile, BrokenRouterFile} :
       files = [m \in Modules |-> IF m = "api_fixer" THEN ff ELSE RouterFile]
  /\ pre = files
  /\ op = NoOp
  /\ result = NoResult
  /\ writes = <<>>
  /\ reports = <<>>
  /\ dirOrder \in WalkOrders
  /\ \E rp \in DupRouteLists(MaxRoutes), rf \in DupRouteLists(MaxRoutes) :
       routes = [m \in Modules |->
                   CASE m = "properties" -> rp
                     [] m = "api_fixer" -> rf
                     [] OTHER -> <<>>]
  /\ scan = NoScan
  /\ health = NoHealth
  /\ checked = NoCheck
  /\ routed = NoRouted
  /\ race = NoRace
  /\ dups = NoDups
  /\ modfix = NoModFix
  /\ apifix = NoApiFix
  /\ literal = NotCalled
  /\ enhanced = NoEnhanced
  /\ limiter = NewLimiter

DupCall(name, r) ==
  /\ pre' = files
  /\ dups' = r
  /\ op' = [name |-> name, module |-> ""]
  /\ UNCHANGED <<files, result, writes, reports, dirOrder, routes, scan, health, checked, routed, race, modfix, apifix, literal, enhanced, limiter>>

\* POST /operation-id-fixer/scan
ScanForConflicts == DupCall("scan_for_conflicts", scan_and_report(dirOrder, files, routes))

\* operation_id_fixer --fix DIR --dry-run
FixDuplicateIds == DupCall("fix_duplicate_ids", fix_duplicate_ids(dirOrder, files, routes))

NextDup == ScanForConflicts \/ FixDuplicateIds

SpecDup == InitDup /\ [][NextDup]_vars

\* --- health checks over a tree of sample files -----------------------------
HealthFiles == SampleFiles \cup {DeepFile}

InitHealth ==
  /\ \E fc \in SelfFiles, ff \in FixerFiles, fs2 \in HealthFiles, fp \in HealthFiles :
       files = [m \in Modules |->
                  CASE m = "api_consistency" -> fc
                    [] m = "api_fixer" -> ff
                    [] m = "string_fixer2" -> fs2
                    [] OTHER -> fp]
  /\ pre = files
  /\ op = NoOp
  /\ result = NoResult
  /\ writes = <<>>
  /\ reports = <<>>
  /\ dirOrder \in DirOrders
  /\ routes = NoRoutes
  /\ scan = NoScan
  /\ health = NoHealth
  /\ checked = NoCheck
  /\ routed = NoRouted
  /\ race = NoRace
  /\ dups = NoDups
  /\ modfix = NoModFix
  /\ apifix = NoApiFix
  /\ literal = NotCalled
  /\ enhanced = NoEnhanced
  /\ limiter = NewLimiter

\* GET /health-check/
HealthCall(r) ==
  /\ pre' = files
  /\ op' = [name |-> "check_health", module |-> ""]
  /\ health' = r
  /\ UNCHANGED <<files, result, writes, reports, dirOrder, routes, scan, checked, routed, race, dups, modfix, apifix, literal, enhanced, limiter>>

CheckHealth == HealthCall(check_health(Listing(files, dirOrder), files))

NextHealth == CheckHealth

SpecHealth == InitHealth /\ [][NextHealth]_vars

\* --- router repair requests over short files of whole statements -----------
MaxLines == 3          \* most lines of a file explored by SpecRouter

RouterLineKinds == {IMPORT_OS, FROM_FASTAPI, ROUTER_IMPORT, ROUTER_DEF, ROUTE, MENTION, LETTER}

\* one statement per line, with or without a final newline
RouterTexts(n) ==
  LET bodies == {Join([i \in 1..Len(ls) |-> <<ls[i]>>]) :
                   ls \in UNION {[1..k -> RouterLineKinds] : k \in 0..n}}
  IN bodies \cup {b \o <<NL>> : b \in bodies}

RouterFiles ==
  {MissingFile, UnreadableFile} \cup {MkFile(TRUE, TRUE, c) : c \in RouterTexts(MaxLines)}

InitRouter ==
  /\ \E f \in RouterFiles :
       files = [m \in Modules |-> IF m = "properties" THEN f ELSE ValidFile]
  /\ pre = files
  /\ op = NoOp
  /\ result = NoResult
  /\ writes = <<>>
  /\ reports = <<>>
  /\ dirOrder = SomeDirOrder
  /\ routes = NoRoutes
  /\ scan = NoScan
  /\ health = NoHealth
  /\ checked = NoCheck
  /\ routed = NoRouted
  /\ race = NoRace
  /\ dups = NoDups
  /\ modfix = NoModFix
  /\ apifix = NoApiFix
  /\ literal = NotCalled
  /\ enhanced = NoEnhanced
  /\ limiter = NewLimiter

\* POST /fix-router {module_name: m}
RouterCall(m, r) ==
  /\ pre' = files
  /\ files' = r.fs
  /\ op' = [name |-> "fix_module_router", module |-> m]
  /\ routed' = RouterResponse(r.result)
  /\ writes' = r.writes
  /\ UNCHANGED <<result, reports, dirOrder, routes, scan, health, checked, race, dups, modfix, apifix, literal, enhanced, limiter>>

FixModuleRouter(m) == RouterCall(m, fix_module_router(m, files))

NextRouter == \E m \in Modules : FixModuleRouter(m)

SpecRouter == InitRouter /\ [][NextRouter]_vars

\* --- two requests on one file, interleaved at their file accesses ----------
\* A request reads the whole file when it starts (api_consistency lines
\* 141-142, api_fixer lines 296-297), repairs the text in memory and writes
\* the whole file back (lines 179-180, 369-370).  Nothing locks or re-reads
\* the file in between: the text repaired is the one read at the start.
RequestView_Locked(view, current) == current

RequestView(view, current) == view

MaxRaceLines == 2      \* most lines of a file explored by SpecRace

RaceLineKinds == {<<IMPORT_OS>>, <<ROUTER_IMPORT>>, <<ROUTER_DEF>>, <<ROUTE>>,
                  <<LETTER>>, <<SQ, LETTER>>, <<LETTER, SP, EQ, SP, DQ, LETTER>>}

RaceTexts(n) ==
  {Join(ls) : ls \in UNION {[1..k -> RaceLineKinds] : k \in 1..n}}

RaceModule == "properties"

InitRace ==
  /\ \E c \in RaceTexts(MaxRaceLines) :
       files = [m \in Modules |-> IF m = RaceModule THEN MkFile(TRUE, TRUE, c) ELSE ValidFile]
  /\ pre = files
  /\ op = NoOp
  /\ result = NoResult
  /\ writes = <<>>
  /\ reports = <<>>
  /\ dirOrder = SomeDirOrder
  /\ routes = NoRoutes
  /\ scan = NoScan
  /\ health = NoHealth
  /\ checked = NoCheck
  /\ routed = NoRouted
  /\ race = NoRace
  /\ dups = NoDups
  /\ modfix = NoModFix
  /\ apifix = NoApiFix
  /\ literal = NotCalled
  /\ enhanced = NoEnhanced
  /\ limiter = NewLimiter

\* the tree a request works on: the file as the request sees it
ViewTree(view) == [files EXCEPT ![RaceModule] = RequestView(view, files[RaceModule])]

\* the file after the request's writes (whole-file overwrite)
AfterWrites(w) ==
  IF w = <<>> THEN files ELSE [files EXCEPT ![RaceModule].content = w[Len(w)].content]

\* POST /fix-module-syntax starts: the file is read
SyntaxRead ==
  /\ race.syntax.pc = "idle"
  /\ race' = [race EXCEPT !.syntax = [pc |-> "read", view |-> files[RaceModule]]]
  /\ op' = [name |-> "syntax_read", module |-> RaceModule]
  /\ UNCHANGED <<files, pre, result, writes, reports, dirOrder, routes, scan, health,
                 checked, routed, dups, modfix, apifix, literal, enhanced, limiter>>

\* ... and ends: repair in memory, write, answer
SyntaxFinishWith(r) ==
  /\ files' = AfterWrites(r.writes)
  /\ result' = r.result
  /\ writes' = writes \o r.writes
  /\ race' = [race EXCEPT !.syntax.pc = "done", !.order = Append(@, "syntax")]
  /\ op' = [name |-> "syntax_finish", module |-> RaceModule]
  /\ UNCHANGED <<pre, reports, dirOrder, routes, scan, health, checked, routed, dups, modfix, apifix, literal, enhanced, limiter>>

SyntaxFinish ==
  /\ race.syntax.pc = "read"
  /\ SyntaxFinishWith(fix_module_syntax(RaceModule, ViewTree(race.syntax.view)))

\* POST /fix-router starts: the file is read
RouterRead ==
  /\ race.router.pc = "idle"
  /\ race' = [race EXCEPT !.router = [pc |-> "read", view |-> files[RaceModule]]]
  /\ op' = [name |-> "router_read", module |-> RaceModule]
  /\ UNCHANGED <<files, pre, result, writes, reports, dirOrder, routes, scan, health,
                 checked, routed, dups, modfix, apifix, literal, enhanced, limiter>>

\* ... and ends
RouterFinishWith(r) ==
  /\ files' = AfterWrites(r.writes)
  /\ routed' = RouterResponse(r.result)
  /\ writes' = writes \o r.writes
  /\ race' = [race EXCEPT !.router.pc = "done", !.order = Append(@, "router")]
  /\ op' = [name |-> "router_finish", module |-> RaceModule]
  /\ UNCHANGED <<pre, result, reports, dirOrder, routes, scan, health, checked, dups, modfix, apifix, literal, enhanced, limiter>>

RouterFinish ==
  /\ race.router.pc = "read"
  /\ RouterFinishWith(fix_module_router(RaceModule, ViewTree(race.router.view)))

NextRace ==
  \/ SyntaxRead
  \/ SyntaxFinish
  \/ RouterRead
  \/ RouterFinish

SpecRace == InitRace /\ [][NextRace]_vars

\* --- the fixers of module_fixer on one file --------------------------------
MaxDecLines == 3       \* most lines of a decorator layout explored by SpecModule
MaxModLen == 3         \* longest plain text explored by SpecModule
MaxFixRuns == 3        \* most fix_operation_ids calls explored by SpecModule

DecLineKinds ==
  {<<DEC_OPEN, RPAREN>>,            \* @router.get('/x')
   <<DEC_OPEN, RPAREN, SP>>,        \* the same with a trailing blank
   <<DEC_OPEN>>,                    \* the argument list stays open
   <<DEC_ARG, RPAREN>>,             \* ... and closes on this line
   <<DEC_OPEN, OPID, RPAREN>>,      \* the ID is there already
   <<DEF_HEAD, RPAREN, COLON>>,     \* def f():
   <<LETTER>>}

\* Join, with the lines given as a function 1..k -> line
RECURSIVE JoinLines(_, _)
JoinLines(ls, i) ==
  IF i > Len(ls) THEN <<>>
  ELSE IF i = Len(ls) THEN ls[i]
  ELSE ls[i] \o <<NL>> \o JoinLines(ls, i + 1)

DecTexts(n) == {JoinLines(ls, 1) : ls \in UNION {[1..k -> DecLineKinds] : k \in 1..n}}

ModuleFiles ==
  {UnreadableFile} \cup {MkFile(TRUE, TRUE, c) : c \in DecTexts(MaxDecLines) \cup Contents(MaxModLen)}

InitModule ==
  /\ \E f \in ModuleFiles :
       files = [m \in Modules |-> IF m = "properties" THEN f ELSE ValidFile]
  /\ pre = files
  /\ op = NoOp
  /\ result = NoResult
  /\ writes = <<>>
  /\ reports = <<>>
  /\ dirOrder = SomeDirOrder
  /\ routes = NoRoutes
  /\ scan = NoScan
  /\ health = NoHealth
  /\ checked = NoCheck
  /\ routed = NoRouted
  /\ race = NoRace
  /\ dups = NoDups
  /\ modfix = NoModFix
  /\ apifix = NoApiFix
  /\ literal = NotCalled
  /\ enhanced = NoEnhanced
  /\ limiter = NewLimiter

\* previous is the request served before this one and fixed_before what it
\* returned
ModuleCall(name, m, r) ==
  /\ pre' = files
  /\ files' = r.fs
  /\ writes' = r.writes
  /\ op' = [name |-> name, module |-> m]
  /\ modfix' = [success |-> r.success, message |-> r.message, previous |-> op,
                fixed_before |-> modfix.success,
                runs |-> IF name = "module_fixer.fix_operation_ids"
                         THEN modfix.runs + 1 ELSE modfix.runs]
  /\ UNCHANGED <<result, reports, dirOrder, routes, scan, health, checked, routed, race, dups, apifix, literal, enhanced, limiter>>

\* POST /module-fixer/fix with check_type "syntax": the one write it makes
ModuleFixStrings(m) ==
  ModuleCall("module_fixer.fix_unterminated_strings", m, fix_unterminated_strings(m, files))

\* POST /module-fixer/fix with check_type "operation_id"
ModuleFixOperationIds(m) ==
  /\ modfix.runs < MaxFixRuns
  /\ ModuleCall("module_fixer.fix_operation_ids", m, module_fixer_fix_operation_ids(m, files))

NextModule == ModuleFixStrings("properties") \/ ModuleFixOperationIds("properties")

SpecModule == InitModule /\ [][NextModule]_vars

\* --- /fix-module of api_fixer on one file ----------------------------------
MaxApiLen == 3         \* longest text after the heading lines explored by SpecApiFix

ApiHeadings ==
  {<<>>,
   <<ROUTER_IMPORT, NL>>,
   <<FROM_FASTAPI, NL>>,
   <<IMPORT_OS, NL, ROUTE, NL>>,
   <<ROUTER_IMPORT, NL, ROUTER_DEF, NL, ROUTE_RM, NL>>}

ApiFixFiles ==
  {MissingFile, UnreadableFile, DeepFile}
    \cup {MkFile(TRUE, TRUE, h \o c) : h \in ApiHeadings, c \in Contents(MaxApiLen)}

InitApiFix ==
  /\ \E f \in ApiFixFiles :
       files = [m \in Modules |-> IF m = "properties" THEN f ELSE ValidFile]
  /\ pre = files
  /\ op = NoOp
  /\ result = NoResult
  /\ writes = <<>>
  /\ reports = <<>>
  /\ dirOrder = SomeDirOrder
  /\ routes = NoRoutes
  /\ scan = NoScan
  /\ health = NoHealth
  /\ checked = NoCheck
  /\ routed = NoRouted
  /\ race = NoRace
  /\ dups = NoDups
  /\ modfix = NoModFix
  /\ apifix = NoApiFix
  /\ literal = NotCalled
  /\ enhanced = NoEnhanced
  /\ limiter = NewLimiter

ApiFixCall(m, r) ==
  /\ pre' = files
  /\ files' = r.fs
  /\ writes' = r.writes
  /\ apifix' = r.answer
  /\ op' = [name |-> "api_fixer.fix_module_syntax", module |-> m]
  /\ UNCHANGED <<result, reports, dirOrder, routes, scan, health, checked, routed, race, dups, modfix, literal, enhanced, limiter>>

\* POST /fix-module
ApiFixModule(m) == ApiFixCall(m, api_fixer_fix_module_syntax(m, files))

NextApiFix == \E m \in Modules : ApiFixModule(m)

SpecApiFix == InitApiFix /\ [][NextApiFix]_vars

\* --- one request to string_literal_fixer on one file ----------------------
MaxDocLen == 3

\* short texts followed by an import line, so that the docstring heuristic
\* finds a line to put the closing quote in front of
DocstringFiles == {MkFile(TRUE, TRUE, c \o <<NL, IMPORT_OS>>) : c \in Contents(MaxDocLen)}

InitLiteral ==
  /\ \E f \in RepairFiles \cup DocstringFiles :
       files = [m \in Modules |-> IF m = "properties" THEN f ELSE ValidFile]
  /\ pre = files
  /\ op = NoOp
  /\ result = NoResult
  /\ writes = <<>>
  /\ reports = <<>>
  /\ dirOrder = SomeDirOrder
  /\ routes = NoRoutes
  /\ scan = NoScan
  /\ health = NoHealth
  /\ checked = NoCheck
  /\ routed = NoRouted
  /\ race = NoRace
  /\ dups = NoDups
  /\ modfix = NoModFix
  /\ apifix = NoApiFix
  /\ literal = NotCalled
  /\ enhanced = NoEnhanced
  /\ limiter = NewLimiter

LiteralCall(m, r) ==
  /\ op = NoOp
  /\ pre' = files
  /\ files' = r.fs
  /\ op' = [name |-> "fix_module_string_literals", module |-> m]
  /\ result' = r.result
  /\ writes' = r.writes
  /\ literal' = r.literal
  /\ UNCHANGED <<reports, dirOrder, routes, scan, health, checked, routed, race, dups, modfix, apifix, enhanced, limiter>>

\* one call of fix_module_string_literals(m)
FixModuleStringLiterals(m) == LiteralCall(m, string_literal_fixer_fix_module(m, files))

NextLiteral == \E m \in Modules : FixModuleStringLiterals(m)

SpecLiteral == InitLiteral /\ [][NextLiteral]_vars

\* --- one call of the enhanced string fixer on one file ---------------------
MaxTailLen == 3

\* the beginnings of a text whose first string literal runs on to the next
\* line behind a backslash
ContinuedHeads == {<<SQ, BS, NL>>, <<SQ, BS, NL, NL>>, <<DQ, BS, NL, NL>>}

TailChars == Chars \cup {SP, BS}

Tails(n) == UNION {[1..k -> TailChars] : k \in 0..n}

EnhancedFiles ==
  {MissingFile, UnreadableFile, DeepFile}
    \cup {MkFile(TRUE, TRUE, c) : c \in Contents(MaxLen)}
    \cup {MkFile(TRUE, TRUE, h \o c) : h \in ContinuedHeads, c \in Tails(MaxTailLen)}

InitEnhanced ==
  /\ \E f \in EnhancedFiles :
       files = [m \in Modules |-> IF m = "properties" THEN f ELSE ValidFile]
  /\ pre = files
  /\ op = NoOp
  /\ result = NoResult
  /\ writes = <<>>
  /\ reports = <<>>
  /\ dirOrder = SomeDirOrder
  /\ routes = NoRoutes
  /\ scan = NoScan
  /\ health = NoHealth
  /\ checked = NoCheck
  /\ routed = NoRouted
  /\ race = NoRace
  /\ dups = NoDups
  /\ modfix = NoModFix
  /\ apifix = NoApiFix
  /\ literal = NotCalled
  /\ enhanced = NoEnhanced
  /\ limiter = NewLimiter

EnhancedCall(name, m, r) ==
  /\ op = NoOp
  /\ pre' = files
  /\ files' = r.fs
  /\ op' = [name |-> name, module |-> m]
  /\ writes' = r.writes
  /\ enhanced' = [status |-> r.status, fixes |-> r.fixes]
  /\ UNCHANGED <<result, reports, dirOrder, routes, scan, health, checked, routed, race, dups, modfix, apifix, literal, limiter>>

\* one call of fix_module_string_literals_enhanced(m)
FixModuleStringLiteralsEnhanced(m) ==
  EnhancedCall("fix_module_string_literals_enhanced", m,
               fix_module_string_literals_enhanced(m, files))

\* one call of fix_file_string_literals(path of m's __init__.py)
FixFileStringLiterals(m) ==
  EnhancedCall("fix_file_string_literals", m, fix_file_string_literals(m, files))

NextEnhanced ==
  \E m \in Modules :
    \/ FixModuleStringLiteralsEnhanced(m)
    \/ FixFileStringLiterals(m)

SpecEnhanced == InitEnhanced /\ [][NextEnhanced]_vars

\* --- callers of dall_e_limiter.acquire() over a clock of discrete ticks ----
MaxTicks == 5

TickSeconds == period \div max_calls

InitLimiter ==
  /\ files = [m \in Modules |-> ValidFile]
  /\ pre = files
  /\ op = NoOp
  /\ result = NoResult
  /\ writes = <<>>
  /\ reports = <<>>
  /\ dirOrder = SomeDirOrder
  /\ routes = NoRoutes
  /\ scan = NoScan
  /\ health = NoHealth
  /\ checked = NoCheck
  /\ routed = NoRouted
  /\ race = NoRace
  /\ dups = NoDups
  /\ modfix = NoModFix
  /\ apifix = NoApiFix
  /\ literal = NotCalled
  /\ enhanced = NoEnhanced
  /\ limiter = NewLimiter

LimiterStep(name, l) ==
  /\ limiter' = l
  /\ op' = [name |-> name, module |-> ""]
  /\ UNCHANGED <<files, pre, result, writes, reports, dirOrder, routes, scan, health, checked, routed, race, dups, modfix, apifix, literal, enhanced>>

\* time.monotonic() moves on, whether or not a caller sleeps
Tick ==
  /\ limiter.now < MaxTicks * TickSeconds
  /\ LimiterStep("tick", [limiter EXCEPT !.now = limiter.now + TickSeconds])

\* a caller gets the lock and runs acquire(1) up to its return or its sleep;
\* the callers behind it wait on the lock
AcquireEnter ==
  /\ limiter.holder = "none"
  /\ LimiterStep("acquire", AcquireRefilled(_refill(limiter)))

\* asyncio.sleep(wait_time) is over, at the earliest after wait_time
AcquireWake ==
  /\ limiter.holder = "sleeping"
  /\ limiter.now >= limiter.wake
  /\ LimiterStep("acquire_woken", AcquireWoken(limiter))

NextLimiter ==
  \/ Tick
  \/ AcquireEnter
  \/ AcquireWake

SpecLimiter == InitLimiter /\ [][NextLimiter]_vars

\* ----------------------------------------------------------------- claims
IsRepairCall == op.name = "fix_module_syntax"
IsBatchCall == op.name = "fix_all_modules_syntax"
IsRouterCall == op.name = "fix_module_router"
WasReadable(m) == pre[m].exists /\ pre[m].readable
ReportsFix(fx) == \E i \in 1..Len(fx) : fx[i].text = "Fixed unterminated string at line"
Statuses(r) == {r.results[i].status : i \in 1..Len(r.results)}
WrittenModules(w) == {w[i].module : i \in 1..Len(w)}
LastReport == reports[Len(reports)]

\* C1: whenever fix_module_syntax returns "fixed" for a module, the text it
\* wrote to the module's __init__.py, and so the file on disk, passes
\* is_syntax_valid.
C1_FixedIsValid ==
  (IsRepairCall /\ result.status = "fixed") =>
    /\ Len(writes) = 1
    /\ writes[1].module = op.module
    /\ is_syntax_valid(writes[1].content)
    /\ files[op.module].content = writes[1].content

\* a two-step repair of an invalid file was reported fixed
C1_Witness ==
  /\ IsRepairCall /\ result.status = "fixed"
  /\ ~is_syntax_valid(pre[op.module].content)
  /\ Len(result.fixes) >= 2

\* C2: whenever fix_module_syntax returns "unfixable", nothing was written:
\* the file on disk is the text read at the start of the call.
C2_UnfixableUntouched ==
  (IsRepairCall /\ result.status = "unfixable") =>
    /\ writes = <<>>
    /\ files = pre

\* unfixable although an intermediate repair had changed the text in memory
C2_Witness ==
  /\ IsRepairCall /\ result.status = "unfixable"
  /\ ReportsFix(result.fixes)

\* C3: a module whose file is valid at the start of the call gets status
\* "no_issues", no fixes, and no write.
C3_ValidUntouched ==
  (IsRepairCall /\ WasReadable(op.module) /\ is_syntax_valid(pre[op.module].content)) =>
    /\ result.status = "no_issues"
    /\ result.fixes = <<>>
    /\ writes = <<>>
    /\ files = pre

\* a valid file holding string literals went through the repairer
C3_Witness ==
  /\ IsRepairCall /\ WasReadable(op.module)
  /\ is_syntax_valid(pre[op.module].content)
  /\ Count(pre[op.module].content, SQ) > 0
  /\ result.status = "no_issues"

\* C4: when a batch run left every scanned module valid (each reported fixed
\* or no_issues), the next batch run on the unchanged tree reports no_issues
\* for every scanned module and writes no file.
C4_SecondRunNoIssues ==
  \A k \in 1..(Len(reports) - 1) :
    (reports[k].code = 200 /\ Statuses(reports[k]) \subseteq {"fixed", "no_issues"}) =>
      /\ reports[k+1].code = 200
      /\ reports[k+1].calls = reports[k].calls
      /\ Statuses(reports[k+1]) \subseteq {"no_issues"}
      /\ reports[k+1].writes = <<>>

\* two runs, the first of which repaired a module and left all of them valid
C4_Witness ==
  /\ Len(reports) >= 2
  /\ reports[1].code = 200
  /\ "fixed" \in Statuses(reports[1])
  /\ Statuses(reports[1]) \subseteq {"fixed", "no_issues"}
  /\ Len(reports[2].results) >= 2

\* C5: fix_all_modules_syntax never reads, repairs or writes the
\* api_consistency module's own file, whatever its content.
C5_SelfExcluded ==
  /\ \A k \in 1..Len(reports) :
       /\ \A i \in 1..Len(reports[k].calls) : reports[k].calls[i] # "api_consistency"
       /\ \A i \in 1..Len(reports[k].reads) : reports[k].reads[i] # "api_consistency"
       /\ "api_consistency" \notin WrittenModules(reports[k].writes)
  /\ IsBatchCall => files["api_consistency"] = pre["api_consistency"]

\* a batch ran and repaired a module while the orchestrator's own file was broken
C5_Witness ==
  /\ IsBatchCall
  /\ WasReadable("api_consistency")
  /\ ~is_syntax_valid(files["api_consistency"].content)
  /\ "fixed" \in Statuses(LastReport)

\* C6: in a batch, a module whose read fails gets an entry with status
\* "error", every other non-excluded module is still processed, results has
\* exactly one entry per non-excluded module, and the call answers with a
\* report (200).
Scanned == {m \in Modules : pre[m].exists /\ m \notin SkipList}

C6_BatchResilience ==
  IsBatchCall =>
    /\ LastReport.code = 200
    /\ Len(LastReport.results) = Cardinality(Scanned)
    /\ \A m \in Scanned :
         \E i \in 1..Len(LastReport.results) :
           /\ LastReport.results[i].module = m
           /\ ~pre[m].readable => LastReport.results[i].status = "error"

\* an unreadable module was reported as error and a later module was repaired
C6_Witness ==
  /\ IsBatchCall
  /\ \E i, j \in 1..Len(LastReport.results) :
       /\ i < j
       /\ ~pre[LastReport.results[i].module].readable
       /\ LastReport.results[i].status = "error"
       /\ LastReport.results[j].status = "fixed"

\* C7: after the operation-id scan has completed over the whole tree, no
\* two route decorators of the scanned files have the same effective
\* operation ID.
RouteSites == {<<m, i>> \in Modules \X (1..(MaxRoutes + 1)) :
                 m \in scan.scanned /\ i <= Len(routes[m])}

C7_UniqueOperationIds ==
  op.name = "fix_operation_ids" =>
    \A a, b \in RouteSites :
      a # b => EffectiveId(routes[a[1]][a[2]]) # EffectiveId(routes[b[1]][b[2]])

\* C8: every entry of the fixes list returned by fix_module_syntax that
\* reports an applied fix names a line whose change is in the file on disk
\* after the call.
LineOf(content, n) ==
  IF n >= 1 /\ n <= Len(Split(content)) THEN Split(content)[n] ELSE <<>>

C8_FixesPersisted ==
  IsRepairCall =>
    \A i \in 1..Len(result.fixes) :
      result.fixes[i].text = "Fixed unterminated string at line" =>
        LineOf(files[op.module].content, result.fixes[i].line)
          # LineOf(pre[op.module].content, result.fixes[i].line)

\* C9: the batch never calls fix_module_syntax on, and so never rewrites,
\* the orchestrator or any sibling repair module.
C9_RepairModulesExcluded ==
  \A k \in 1..Len(reports) :
    /\ \A i \in 1..Len(reports[k].calls) : reports[k].calls[i] \notin RepairModules
    /\ WrittenModules(reports[k].writes) \cap RepairModules = {}

\* C10: the direct string-literal fixers write the file only with text that
\* compiles; when the repaired text still fails to compile the file on disk
\* is unchanged.
IsDirectCall == op.name \in {"fix_file", "fix_string_literals3", "fix_string_literals"}
StillBroken == result.status = "partial" \/ result.message = "partial_fix"

C10_DirectWriteValidated ==
  IsDirectCall =>
    /\ \A i \in 1..Len(writes) : is_syntax_valid(writes[i].content)
    /\ StillBroken => files = pre

\* C11: fix_module_syntax and its endpoint never raise: whatever the file
\* (missing, undecodable, or a text the compiler answers with an exception
\* that is not a SyntaxError) the call returns a result with one of the four
\* statuses, built by fix_module_syntax itself and not by the endpoint's
\* fallback; a failed read or compile gives status "error" whose message
\* carries the exception's text.
RaisesInside(f) ==
  /\ f.exists
  /\ (~f.readable \/ Compile(f.content).kind = "parser_overflow")

\* str(e) of the exception the file provokes
RaisedText(f) == IF ~f.readable THEN "decode_error" ELSE Compile(f.content).kind

C12_BoundedIterations ==
  IsRepairCall =>
    /\ result.iterations <= 10
    /\ result.status \in {"fixed", "no_issues"} => is_syntax_valid(files[op.module].content)
    /\ (WasReadable(op.module) /\ result.status # "error"
          /\ ~is_syntax_valid(files[op.module].content)) => result.status = "unfixable"

\* the loop ran to its cap without making the text valid
C12_Witness ==
  /\ IsRepairCall
  /\ result.iterations = 10
  /\ Len(result.fixes) = 10
  /\ result.status = "unfixable"

\* C13: for the file holding exactly the line  description = "Luxury home
\* and a newline, fix_module_syntax returns "fixed" with the single fix
\* "Fixed unterminated string at line 1", and the file then holds
\* description = "Luxury home"  followed by the same newline; likewise
\* x = 'abc  becomes  x = 'abc'  and is valid.
OneFixAtLine1(fx) ==
  /\ Len(fx) = 1
  /\ fx[1].text = "Fixed unterminated string at line"
  /\ fx[1].line = 1

C13_Example ==
  IsRepairCall =>
    /\ pre[op.module] = ExampleFile =>
         /\ result.status = "fixed"
         /\ OneFixAtLine1(result.fixes)
         /\ files[op.module].content = ExampleLine \o <<DQ, NL>>
    /\ pre[op.module] = SyntheticFile =>
         /\ result.status = "fixed"
         /\ OneFixAtLine1(result.fixes)
         /\ files[op.module].content = SyntheticText \o <<SQ>>
         /\ is_syntax_valid(files[op.module].content)

\* the example file went through the repairer
C13_Witness ==
  /\ IsRepairCall
  /\ pre[op.module] = ExampleFile
  /\ files[op.module] # ExampleFile
  /\ result.status = "fixed"

\* C14: check_health gives every discovered module exactly one entry, in
\* healthy_modules or in unhealthy_modules; a module that cannot be read or
\* parsed is listed unhealthy with an error text while the others are still
\* checked; healthy_count + unhealthy_count = total_modules; and the status
\* is "unhealthy" exactly when unhealthy_count > 0.
Discovered == {m \in Modules : pre[m].exists}
HealthNames(entries) == {entries[i].module_name : i \in 1..Len(entries)}
Parses(f) == f.readable /\ is_syntax_valid(f.content)

C14_HealthIndependence ==
  op.name = "check_health" =>
    /\ HealthNames(health.healthy_modules) = {m \in Discovered : Parses(pre[m])}
    /\ HealthNames(health.unhealthy_modules) = {m \in Discovered : ~Parses(pre[m])}
    /\ Len(health.healthy_modules) + Len(health.unhealthy_modules) = Cardinality(Discovered)
    /\ \A i \in 1..Len(health.unhealthy_modules) :
         /\ health.unhealthy_modules[i].status = "unhealthy"
         /\ health.unhealthy_modules[i].error # ""
    /\ health.healthy_count = Len(health.healthy_modules)
    /\ health.unhealthy_count = Len(health.unhealthy_modules)
    /\ health.healthy_count + health.unhealthy_count = health.total_modules
    /\ health.total_modules = Cardinality(Discovered)
    /\ health.status = (IF health.unhealthy_count > 0 THEN "unhealthy" ELSE "healthy")
    /\ files = pre

\* an unreadable module was listed unhealthy and a module after it healthy
C14_Witness ==
  /\ op.name = "check_health"
  /\ \E m, n \in Discovered :
       /\ ~pre[m].readable
       /\ m \in HealthNames(health.unhealthy_modules)
       /\ n \in HealthNames(health.healthy_modules)
       /\ \E i, j \in 1..Len(dirOrder) : i < j /\ dirOrder[i] = m /\ dirOrder[j] = n

\* C15: for a module whose __init__.py is missing, /check-module and
\* /fix-module-syntax both answer 200 with a report that marks the module
\* as an error.
C15_MissingModuleReported ==
  /\ (IsRepairCall /\ ~pre[op.module].exists) => result.status = "error"
  /\ (op.name = "check_api_consistency" /\ ~pre[op.module].exists) =>
       (checked.code = 200 /\ ~checked.is_valid)

\* C18: the quote kind appended to a reported line is chosen in the order
\* triple-double, triple-single, double (single count even), single (double
\* count even): when fix_module_syntax repaired a file in one iteration with
\* one fix, the file holds the reported line followed by the kind of highest
\* priority, and detect_unclosed_quotes names the same kind for that line.
PriorityQuote(line) ==
  IF CountTriple(line, DQ, 1) % 2 = 1 THEN <<DQ, DQ, DQ>>
  ELSE IF CountTriple(line, SQ, 1) % 2 = 1 THEN <<SQ, SQ, SQ>>
  ELSE IF Count(line, DQ) % 2 = 1 /\ Count(line, SQ) % 2 = 0 THEN <<DQ>>
  ELSE IF Count(line, SQ) % 2 = 1 /\ Count(line, DQ) % 2 = 0 THEN <<SQ>>
  ELSE <<>>

ReportedLine == Split(pre[op.module].content)[result.fixes[1].line]

RepairedOnce ==
  /\ IsRepairCall
  /\ result.status = "fixed"
  /\ result.iterations = 1
  /\ Len(result.fixes) = 1

C18_QuotePriority ==
  (RepairedOnce /\ PriorityQuote(ReportedLine) # <<>>) =>
    /\ files[op.module].content =
         Join(Append1(Split(pre[op.module].content), result.fixes[1].line,
                      PriorityQuote(ReportedLine)))
    /\ detect_unclosed_quotes(ReportedLine) = <<TRUE, PriorityQuote(ReportedLine)>>

\* C19: fix_module_router on a file that holds the router import but no
\* router construction applies exactly one fix, the construction statement,
\* and adds no import; on a file that holds neither it adds both, and in the
\* file it writes the import precedes the construction statement.
IsRouterImport(sym) == sym \in {ROUTER_IMPORT, APIROUTER_SUFFIX}
HasRouterImport(content) == \E i \in 1..Len(content) : IsRouterImport(content[i])
RouterImportCount(content) == Cardinality({i \in 1..Len(content) : IsRouterImport(content[i])})
ImportPrecedesDef(content) ==
  \E i \in 1..Len(content) :
    /\ IsRouterImport(content[i])
    /\ \A j \in 1..Len(content) : content[j] = ROUTER_DEF => i < j

C19_RouterEdgePolicy ==
  (IsRouterCall /\ WasReadable(op.module) /\ ~IsBlank(pre[op.module].content)
     /\ ~HasRouterDef(pre[op.module].content)) =>
    /\ HasRouterImport(pre[op.module].content) =>
         /\ Len(routed.body.fixes) = 1
         /\ HasRouterDef(files[op.module].content)
         /\ RouterImportCount(files[op.module].content)
              = RouterImportCount(pre[op.module].content)
    /\ ~HasRouterImport(pre[op.module].content) =>
         /\ Len(routed.body.fixes) = 2
         /\ HasRouterDef(files[op.module].content)
         /\ ImportPrecedesDef(files[op.module].content)

\* C20: every operation ID that suggest_fixes assigns differs from every
\* other ID assigned in the same pass and from every effective operation ID
\* found in the scanned files, duplicated or not.
C20_AssignedIdsUnique ==
  op.name = "fix_duplicate_ids" =>
    \A i \in 1..Len(dups.fixes) :
      /\ \A j \in 1..Len(dups.fixes) : dups.fixes[j].new = dups.fixes[i].new => i = j
      /\ \A k \in 1..Len(dups.instances) : dups.instances[k].value # dups.fixes[i].new

\* C16: fix_module_router applies no fix to, and does not write, a file
\* that holds no route decorator, and reports fixed = false for it.
C16_NoRoutesUntouched ==
  (IsRouterCall /\ WasReadable(op.module) /\ ~HasRouteDecorator(pre[op.module].content)) =>
    /\ ~routed.body.fixed
    /\ routed.body.fixes = <<>>
    /\ writes = <<>>
    /\ files = pre

\* C17: a syntax repair and a router repair of the same file are not
\* serialized.  When both have read the original text before either wrote
\* and both report a repair, the file ends as the later writer left it and
\* the earlier writer's repair, already persisted and reported, is gone.
BothRepaired ==
  /\ race.syntax.pc = "done" /\ race.router.pc = "done"
  /\ race.syntax.view = pre[RaceModule] /\ race.router.view = pre[RaceModule]
  /\ result.status = "fixed"
  /\ routed.body.fixed

C17_LostUpdate ==
  BothRepaired =>
    /\ Len(writes) = 2
    /\ files[RaceModule].content = writes[2].content
    /\ race.order[2] = "syntax" =>
         (HasRouterDef(writes[1].content) /\ ~HasRouterDef(files[RaceModule].content))
    /\ race.order[2] = "router" =>
         (is_syntax_valid(writes[1].content) /\ ~is_syntax_valid(files[RaceModule].content))

\* the router repair was written and reported, then overwritten by the
\* syntax repair of the original text
C17_Witness ==
  /\ BothRepaired
  /\ race.order = <<"router", "syntax">>
  /\ HasRouteDecorator(pre[RaceModule].content)
  /\ HasRouterDef(writes[1].content)
  /\ ~HasRouterDef(files[RaceModule].content)

\* C21: suggest_fixes rewrites only the losing duplicates: of the k >= 2
\* route decorators that share an operation ID, exactly one keeps its ID and
\* k - 1 receive a new one.
DuplicatedIds == {dups.duplicates[k].value : k \in 1..Len(dups.duplicates)}
SharedBy(v) == Cardinality({k \in 1..Len(dups.duplicates) : dups.duplicates[k].value = v})
RewrittenOf(v) == Cardinality({i \in 1..Len(dups.fixes) : dups.fixes[i].old = v})

C21_OnlyLosersRewritten ==
  op.name = "fix_duplicate_ids" =>
    \A v \in DuplicatedIds : RewrittenOf(v) = SharedBy(v) - 1

\* C22: module_fixer.fix_operation_ids is idempotent: run again on the file
\* it has just fixed, it changes nothing and reports that no operation-id
\* issues were found, whatever the layout of the decorators.
RanTwice ==
  /\ op.name = "module_fixer.fix_operation_ids"
  /\ modfix.previous = op
  /\ modfix.fixed_before

C22_OperationIdsIdempotent ==
  RanTwice =>
    /\ files = pre
    /\ ~modfix.success
    /\ modfix.message = "No operation_id issues found"

\* C25: module_fixer.fix_unterminated_strings leaves a syntactically valid
\* file alone: it writes nothing and reports that no unterminated strings
\* were found.
C25_ValidFileUnaltered ==
  (op.name = "module_fixer.fix_unterminated_strings"
     /\ WasReadable(op.module) /\ is_syntax_valid(pre[op.module].content)) =>
    /\ files = pre
    /\ writes = <<>>
    /\ modfix.message = "No unterminated strings found"

\* C23: whenever /fix-module of api_fixer answers "fixed" for a module, the
\* text it left in the module's file is syntactically valid.
IsApiFixCall == op.name = "api_fixer.fix_module_syntax"

C23_ApiFixedIsValid ==
  (IsApiFixCall /\ apifix.status = "fixed") => is_syntax_valid(files[op.module].content)

\* C24: the operation-id scan of api_fixer never rewrites the file of the
\* module that runs it, nor the file of any other repair module.
C24_ScanSparesRepairModules ==
  op.name = "fix_operation_ids" => scan.fixed_modules \cap RepairModules = {}

IsLiteralCall == op.name = "fix_module_string_literals"

LastResortSucceeded ==
  IsLiteralCall /\ literal.was_fixed
    /\ literal.message = "Fixed by adding closing quotes at end of file"

\* C26: when fix_unterminated_string_literal succeeds by its last resort,
\* the text it returns is the text it was given followed by the two
\* triple-quote lines and nothing else: no line of the input is changed
C26_LastResortOnlyAppends ==
  LastResortSucceeded =>
    literal.content = pre[op.module].content \o <<NL, DQ, DQ, DQ, NL, SQ, SQ, SQ>>

\* C30: fix_unterminated_string_literal answers was_fixed only with a text
\* that compiles, and answers the text it was given whenever it does not;
\* fix_module_string_literals writes nothing but such a compiled text
C30_LiteralFixValidated ==
  (IsLiteralCall /\ literal # NotCalled) =>
    /\ literal.was_fixed => is_syntax_valid(literal.content)
    /\ ~literal.was_fixed => literal.content = pre[op.module].content
    /\ writes # <<>> =>
         /\ literal.was_fixed
         /\ files[op.module].content = literal.content
    /\ writes = <<>> => files = pre

\* the heuristics edited lines, none of the edits compiled, and the call
\* answered the text as it was
C30_Witness ==
  /\ IsLiteralCall
  /\ literal.message = "Failed to fix"
  /\ detect_unclosed_quotes(Split(pre[op.module].content)[Compile(pre[op.module].content).detected])[1]
  /\ literal.content = pre[op.module].content
  /\ files = pre

IsEnhancedCall ==
  op.name \in {"fix_module_string_literals_enhanced", "fix_file_string_literals"}

IsAggressiveFix(f) ==
  f.kind \in {"Aggressively fixed double quote", "Aggressively fixed single quote"}

HasOddQuotes(line) == Count(line, SQ) % 2 = 1 \/ Count(line, DQ) % 2 = 1

\* C27: every line the widened retry of the enhanced string fixer edits is
\* the reported line or one next to it, and a line next to the reported
\* one is edited only if it holds an odd number of quotes
C27_WidenedRetryFrame ==
  IsEnhancedCall =>
    \A k \in 1..Len(enhanced.fixes) :
      IsAggressiveFix(enhanced.fixes[k]) =>
        /\ enhanced.fixes[k].line \in
             (enhanced.fixes[k].reported - 1)..(enhanced.fixes[k].reported + 1)
        /\ enhanced.fixes[k].line # enhanced.fixes[k].reported =>
             HasOddQuotes(enhanced.fixes[k].was)

\* C28: in every report of fix_all_modules_syntax the three counts add up
\* to the number of entries of results and to total_modules
C28_CountsPartition ==
  \A k \in 1..Len(reports) :
    reports[k].code = 200 =>
      /\ reports[k].fixed_modules + reports[k].modules_without_issues
           + reports[k].modules_with_errors = Len(reports[k].results)
      /\ Len(reports[k].results) = reports[k].total_modules

\* the part of C28 that the code keeps: the counts add up to the entries
CountsMatchResults ==
  \A k \in 1..Len(reports) :
    reports[k].code = 200 =>
      reports[k].fixed_modules + reports[k].modules_without_issues
        + reports[k].modules_with_errors = Len(reports[k].results)

\* C29: from a full bucket, the calls dall_e_limiter has granted by the
\* time t are at most max_calls + t * (max_calls / period)
C29_TokenBucketBound ==
  limiter.granted * period <= max_calls * period + limiter.now * max_calls

====
